---- MODULE Spec2Model ----
(***************************************************************************)
(* RECOST AI: invoice capture single-page application.                     *)
(*                                                                         *)
(* The module models                                                       *)
(*   - the extraction client's normalisation of the model response         *)
(*     (geminiService.extractInvoiceData),                                 *)
(*   - the persistence shim over localStorage (services/cloudService.ts),  *)
(*   - the view-state flow of App.tsx with its asynchronous handlers; each *)
(*     await is a task in flight that carries the values the handler's     *)
(*     closure captured when it was started,                               *)
(*   - authService (users, session record) and the settings modal.         *)
(*                                                                         *)
(* JavaScript values whose type matters are tagged records (JsStr, JsNum,  *)
(* JsNull, JsUndefined); React string state is a plain string.             *)
(***************************************************************************)
EXTENDS Integers, Sequences, FiniteSets, TLC

VARIABLES
    \* geminiService: last model response and last result of extractInvoiceData
    rawData, extracted,
    \* localStorage
    lsProperties, lsInvoices,
    \* App.tsx React state
    status, properties, selectedPropertyId, fileData, fileMimeType,
    invoiceData, validationErrors, ksefInvoices, processingKsefId,
    ksefPropertySelections, isPropertyManagerOpen, history, lastUploadLink,
    \* event loop: asynchronous operations in flight, the wall clock, and
    \* a record of the last step taken (observation only)
    inflight, now, started, lastEvent,
    \* localStorage of authService and of the settings modal
    lsUsers, lsCurrentUser, lsSettings,
    \* App.tsx session state and SettingsModal state
    currentUser, isSettingsOpen, activeTab, settingsForm, subUsers,
    \* result of the last authService call (observation only)
    authEvent,
    \* the page: the action parameter of the URL, and App.tsx isAuthLoading
    urlAction, isAuthLoading

vars == <<rawData, extracted, lsProperties, lsInvoices, status, properties,
          selectedPropertyId, fileData, fileMimeType, invoiceData,
          validationErrors, ksefInvoices, processingKsefId,
          ksefPropertySelections, isPropertyManagerOpen, history,
          lastUploadLink, inflight, now, started, lastEvent,
          lsUsers, lsCurrentUser, lsSettings, currentUser, isSettingsOpen,
          activeTab, settingsForm, subUsers, authEvent, urlAction,
          isAuthLoading>>

authVars == <<lsUsers, lsCurrentUser, lsSettings, currentUser, isSettingsOpen,
              activeTab, settingsForm, subUsers, authEvent, urlAction,
              isAuthLoading>>

appVars == <<lsProperties, lsInvoices, status, properties,
             selectedPropertyId, fileData, fileMimeType, invoiceData,
             validationErrors, ksefInvoices, processingKsefId,
             ksefPropertySelections, isPropertyManagerOpen, history,
             lastUploadLink, inflight, now, started, lastEvent>>

-----------------------------------------------------------------------------
(* JavaScript values *)

JsUndefined == [type |-> "undefined", s |-> "", n |-> 0]
JsNull == [type |-> "null", s |-> "", n |-> 0]
JsStr(x) == [type |-> "string", s |-> x, n |-> 0]
JsNum(k) == [type |-> "number", s |-> "", n |-> k]

\* ToBoolean: undefined, null, "" and 0 are falsy
Truthy(v) ==
    CASE v.type = "string" -> v.s # ""
      [] v.type = "number" -> v.n # 0
      [] OTHER -> FALSE

TypeofNumber(v) == v.type = "number"

-----------------------------------------------------------------------------
(* Extraction client: normalisation of the parsed model response *)

DEFAULT_CURRENCY == "PLN"

SanitizeTextMutant(v, dflt) == IF Truthy(v) THEN v ELSE JsStr(dflt)

\* (raw && raw !== "null") ? raw : dflt
SanitizeText(v, dflt) ==
    IF Truthy(v) /\ v # JsStr("null") THEN v ELSE JsStr(dflt)

SanitizeNumberMutant(v) == IF v.type \in {"number", "string"} THEN v ELSE JsNum(0)

\* typeof raw === 'number' ? raw : 0
SanitizeNumber(v) == IF TypeofNumber(v) THEN v ELSE JsNum(0)

\* (raw && raw !== "null") ? raw : undefined
SanitizeSuggested(v) ==
    IF Truthy(v) /\ v # JsStr("null") THEN v ELSE JsUndefined

SanitizeData(raw) ==
    [sellerName          |-> SanitizeText(raw.sellerName, ""),
     invoiceNumber       |-> SanitizeText(raw.invoiceNumber, ""),
     date                |-> SanitizeText(raw.date, ""),
     netAmount           |-> SanitizeNumber(raw.netAmount),
     vatAmount           |-> SanitizeNumber(raw.vatAmount),
     grossAmount         |-> SanitizeNumber(raw.grossAmount),
     currency            |-> SanitizeText(raw.currency, DEFAULT_CURRENCY),
     suggestedPropertyId |-> SanitizeSuggested(raw.suggestedPropertyId)]

\* A model response: no text, text that is not JSON, a transport error, or
\* a JSON object.
NoText == [kind |-> "empty"]
BadJson == [kind |-> "badjson"]
NetworkError == [kind |-> "network"]
JsonResponse(obj) == [kind |-> "json", obj |-> obj]

GENERIC_EXTRACTION_ERROR == "Nie udalo sie odczytac danych z pliku."

\* extractInvoiceData: every failure inside the try block is rethrown as the
\* one generic error
extractInvoiceData(resp) ==
    IF resp.kind = "json"
    THEN [ok |-> TRUE, data |-> SanitizeData(resp.obj), error |-> ""]
    ELSE [ok |-> FALSE, data |-> SanitizeData([sellerName |-> JsUndefined,
              invoiceNumber |-> JsUndefined, date |-> JsUndefined,
              netAmount |-> JsUndefined, vatAmount |-> JsUndefined,
              grossAmount |-> JsUndefined, currency |-> JsUndefined,
              suggestedPropertyId |-> JsUndefined]),
          error |-> GENERIC_EXTRACTION_ERROR]

\* Bounded input sets for the model response
RawTextValues == {JsUndefined, JsNull, JsStr("null"), JsStr(""), JsStr("ACME")}
RawDateValues == {JsUndefined, JsStr("null"), JsStr("2025-12-10")}
RawCurrencyValues == {JsUndefined, JsNull, JsStr("null"), JsStr("EUR")}
RawNumberValues == {JsUndefined, JsNull, JsStr("abc"), JsNum(0), JsNum(23), JsNum(123), JsNum(-5)}
RawSuggestedValues == {JsUndefined, JsStr("null"), JsStr("2")}

RawObjects ==
    [sellerName          : RawTextValues,
     invoiceNumber       : {JsUndefined, JsStr("null"), JsStr("FV/1")},
     date                : RawDateValues,
     netAmount           : RawNumberValues,
     vatAmount           : {JsNull, JsNum(23), JsStr("23")},
     grossAmount         : {JsUndefined, JsNum(123), JsNum(-5)},
     currency            : RawCurrencyValues,
     suggestedPropertyId : RawSuggestedValues]

RawResponses ==
    {NoText, BadJson, NetworkError} \cup {JsonResponse(o) : o \in RawObjects}

NoResult == [ok |-> FALSE, data |-> extractInvoiceData(NoText).data, error |-> "none"]

-----------------------------------------------------------------------------
(* Bounds of the model *)

MaxInflight == 2
MaxStarted == 3

-----------------------------------------------------------------------------
(* Persistence shim (cloudService.ts) over localStorage.                   *)
(* A key that was never written reads as null; it is the empty sequence    *)
(* here, which the code itself never writes for the property collection.   *)

Property(id, address, archived, folder) ==
    [id |-> id, name |-> address, address |-> address,
     isArchived |-> archived, driveFolderId |-> folder]

DefaultProperties ==
    << Property("1", "ul. Wisniowa 12/4, Warszawa", FALSE, "folder_123"),
       Property("2", "Al. Jerozolimskie 50, Warszawa", FALSE, "folder_456"),
       Property("3", "ul. Dluga 5, Krakow", TRUE, "folder_789") >>

\* The storage variables hold the value JSON.parse gives for the stored
\* text.  Every member written is a string, a finite number or a boolean; an
\* optional member that is undefined is dropped by JSON.stringify and reads
\* back as undefined, which is "" for the optional string members here.

\* What getProperties resolves to, and what it leaves in storage
getPropertiesResult(ls) == IF ls # <<>> THEN ls ELSE DefaultProperties
getPropertiesStore(ls) == IF ls # <<>> THEN ls ELSE DefaultProperties

PropertyIds(props) == {props[i].id : i \in 1..Len(props)}

FindProperty(props, id) == \E i \in 1..Len(props) : props[i].id = id

MapReplace(props, property) ==
    [i \in 1..Len(props) |->
        IF props[i].id = property.id THEN property ELSE props[i]]

savePropertyStoreMutant(ls, property, clock) ==
    LET props == getPropertiesResult(ls) IN
    IF FindProperty(props, property.id)
    THEN Append(props, property)
    ELSE Append(props, [property EXCEPT !.driveFolderId = ""])

savePropertyStoreStaleMutant(ls, property, clock) ==
    LET props == DefaultProperties IN
    IF FindProperty(props, property.id)
    THEN MapReplace(props, property)
    ELSE Append(props, [property EXCEPT
                          !.driveFolderId = "folder_" \o ToString(clock)])

\* saveProperty: the stored collection after the call.  The read in
\* getProperties' timer callback and the write that follows the await run
\* without any other task in between.
savePropertyStore(ls, property, clock) ==
    LET props == getPropertiesResult(ls) IN
    IF FindProperty(props, property.id)
    THEN MapReplace(props, property)
    ELSE Append(props, [property EXCEPT
                          !.driveFolderId = "folder_" \o ToString(clock)])

savePropertyResultMutant(property) ==
    [property EXCEPT !.driveFolderId = "folder_new"]

\* saveProperty returns the property as submitted
savePropertyResult(property) == property

\* Math.random() in thousandths
RandomPermille == {0, 999}

DriveLink(r) == "https://drive.google.com/drive/folders/mock_id_" \o ToString(r)

\* fileData && mimeType
uploadHasFile(payload) == payload.fileData # "" /\ payload.mimeType # ""

uploadDriveLink(payload, r1) ==
    IF uploadHasFile(payload) THEN DriveLink(r1) ELSE ""

uploadSheetRow(r2) == (r2 \div 10) + 2

uploadNewRecord(payload, r1, r2, clock) ==
    [id            |-> ToString(clock),
     propertyId    |-> payload.propertyId,
     sellerName    |-> payload.sellerName,
     invoiceNumber |-> payload.invoiceNumber,
     date          |-> payload.date,
     netAmount     |-> payload.netAmount,
     vatAmount     |-> payload.vatAmount,
     grossAmount   |-> payload.grossAmount,
     currency      |-> payload.currency,
     fileMimeType  |-> payload.mimeType,
     fileData      |-> payload.fileData,
     driveLink     |-> uploadDriveLink(payload, r1),
     sheetRow      |-> uploadSheetRow(r2)]

uploadStoreMutant(ls, payload, r1, r2, clock) ==
    Append(ls, uploadNewRecord(payload, r1, r2, clock))

\* uploadInvoiceToCloud: history storage after a successful call
uploadStore(ls, payload, r1, r2, clock) ==
    <<uploadNewRecord(payload, r1, r2, clock)>> \o ls

uploadResult(payload, r1, r2) ==
    [driveLink |-> uploadDriveLink(payload, r1), sheetRow |-> uploadSheetRow(r2)]

getRecentInvoices(ls) == ls

KsefInvoice(id, seller, number, date, net, vat, gross) ==
    [id |-> id, sellerName |-> JsStr(seller), invoiceNumber |-> JsStr(number),
     date |-> JsStr(date), netAmount |-> JsNum(net), vatAmount |-> JsNum(vat),
     grossAmount |-> JsNum(gross), currency |-> JsStr("PLN")]

\* getPendingKsefInvoices: amounts in grosze
PendingKsefInvoices ==
    << KsefInvoice("ksef_1", "Castorama Polska Sp. z o.o.", "FV/2025/12/10/001",
                   "2025-12-10", 100041, 23009, 123050),
       KsefInvoice("ksef_2", "Hurtownia Elektryczna MEGAWAT", "HE/55/2025",
                   "2025-12-11", 45000, 10350, 55350),
       KsefInvoice("ksef_3", "PGE Obrot S.A.", "PGE/123123/2025",
                   "2025-12-12", 20000, 4600, 24600) >>

-----------------------------------------------------------------------------
(* View-state flow (App.tsx) *)

KsefIds == {PendingKsefInvoices[i].id : i \in 1..Len(PendingKsefInvoices)}

\* The files the user can pick: File.type is "" when the browser cannot
\* tell the type
Files ==
    { [type |-> "image/png", content |-> "AAAA"],
      [type |-> "", content |-> "AAAA"] }

\* FileReader.readAsDataURL: "data:<type>;base64,<content>"
DataUrl(file) == [mime |-> file.type, content |-> file.content]

\* base64Full.split(',')[1]
Base64Content(url) == url.content

TODAY == "2025-12-15"

\* Values the user types into the review form
SellerInputs == {" ", "ACME"}
DateInputs == {""}
GrossInputs == {0}

\* Responses of the model seen by the application
AppResponses ==
    {NoText, BadJson, NetworkError} \cup
    {JsonResponse([sellerName |-> sn, invoiceNumber |-> JsStr("FV/1"),
                   date |-> JsStr(TODAY), netAmount |-> JsNum(100),
                   vatAmount |-> JsNum(23), grossAmount |-> JsNum(123),
                   currency |-> JsUndefined, suggestedPropertyId |-> sp]) :
        sn \in {JsStr("ACME")},
        sp \in {JsUndefined, JsStr("2"), JsStr("9")}}

ManualDraftMutant ==
    [sellerName |-> JsStr(""), invoiceNumber |-> JsStr(""),
     date |-> JsStr(""), netAmount |-> JsNum(0), vatAmount |-> JsNum(0),
     grossAmount |-> JsNum(0), currency |-> JsStr("PLN"),
     suggestedPropertyId |-> JsUndefined]

\* the record handleManualEntry sets as the draft
ManualDraft ==
    [sellerName |-> JsStr(""), invoiceNumber |-> JsStr(""),
     date |-> JsStr(TODAY), netAmount |-> JsNum(0), vatAmount |-> JsNum(0),
     grossAmount |-> JsNum(0), currency |-> JsStr("PLN"),
     suggestedPropertyId |-> JsUndefined]

MSG_PROPERTY == "Wybierz nieruchomosc z listy."
MSG_SELLER == "Wprowadz nazwe sprzedawcy."
MSG_DATE == "Wprowadz date dokumentu."
MSG_GROSS == "Wprowadz kwote brutto."
MSG_NODATA == "Brak danych faktury."

\* String.prototype.trim() === ''
TrimIsEmpty(str) == str \in {"", " "}

ValidateMutant(sel, draft) ==
    (IF sel = "" THEN <<MSG_PROPERTY>> ELSE <<>>) \o
    (IF draft = JsNull THEN <<MSG_NODATA>>
     ELSE (IF ~Truthy(draft.sellerName) THEN <<MSG_SELLER>> ELSE <<>>) \o
          (IF ~Truthy(draft.date) THEN <<MSG_DATE>> ELSE <<>>) \o
          (IF draft.grossAmount.type \in {"undefined", "null"}
           THEN <<MSG_GROSS>> ELSE <<>>))

ValidateNoPropertyMutant(sel, draft) ==
    (IF draft = JsNull THEN <<MSG_NODATA>>
     ELSE (IF ~Truthy(draft.sellerName) \/ TrimIsEmpty(draft.sellerName.s)
           THEN <<MSG_SELLER>> ELSE <<>>) \o
          (IF ~Truthy(draft.date) THEN <<MSG_DATE>> ELSE <<>>) \o
          (IF draft.grossAmount.type \in {"undefined", "null"}
           THEN <<MSG_GROSS>> ELSE <<>>))

ValidateOrderMutant(sel, draft) ==
    (IF draft = JsNull THEN <<MSG_NODATA>>
     ELSE (IF ~Truthy(draft.sellerName) \/ TrimIsEmpty(draft.sellerName.s)
           THEN <<MSG_SELLER>> ELSE <<>>) \o
          (IF draft.grossAmount.type \in {"undefined", "null"}
           THEN <<MSG_GROSS>> ELSE <<>>) \o
          (IF ~Truthy(draft.date) THEN <<MSG_DATE>> ELSE <<>>)) \o
    (IF sel = "" THEN <<MSG_PROPERTY>> ELSE <<>>)

\* The validation block of handleSubmit: the ordered list of messages
Validate(sel, draft) ==
    (IF sel = "" THEN <<MSG_PROPERTY>> ELSE <<>>) \o
    (IF draft = JsNull THEN <<MSG_NODATA>>
     ELSE (IF ~Truthy(draft.sellerName) \/ TrimIsEmpty(draft.sellerName.s)
           THEN <<MSG_SELLER>> ELSE <<>>) \o
          (IF ~Truthy(draft.date) THEN <<MSG_DATE>> ELSE <<>>) \o
          (IF draft.grossAmount.type \in {"undefined", "null"}
           THEN <<MSG_GROSS>> ELSE <<>>))

SubmitPayload(draft, sel, fd, mime) ==
    [sellerName |-> draft.sellerName, invoiceNumber |-> draft.invoiceNumber,
     date |-> draft.date, netAmount |-> draft.netAmount,
     vatAmount |-> draft.vatAmount, grossAmount |-> draft.grossAmount,
     currency |-> draft.currency, propertyId |-> sel,
     fileData |-> IF fd # JsNull THEN Base64Content(fd) ELSE "",
     mimeType |-> mime]

\* {...invoice, propertyId}: no file bytes, no MIME type
ApprovePayload(invoice, target) ==
    [sellerName |-> invoice.sellerName, invoiceNumber |-> invoice.invoiceNumber,
     date |-> invoice.date, netAmount |-> invoice.netAmount,
     vatAmount |-> invoice.vatAmount, grossAmount |-> invoice.grossAmount,
     currency |-> invoice.currency, propertyId |-> target,
     fileData |-> "", mimeType |-> ""]

\* Timers fire in the order of their deadlines: a timer set earlier with a
\* delay that is not longer fires first.  The extraction call is a network
\* request and completes whenever the service answers.
TimerDelay(task) ==
    CASE task.kind \in {"loadProps", "saveProp", "reloadProps"} -> 500
      [] task.kind \in {"loadKsef", "openKsef", "resetKsef"} -> 800
      [] task.kind \in {"upload", "approve", "google"} -> 1000
      [] task.kind \in {"login", "emailLogin"} -> 800
      [] OTHER -> 0

CanComplete(i) ==
    \A j \in 1..(i - 1) :
        ~(TimerDelay(inflight[j]) > 0 /\ TimerDelay(inflight[i]) > 0
          /\ TimerDelay(inflight[j]) <= TimerDelay(inflight[i]))

RemoveAt(seq, i) == SubSeq(seq, 1, i - 1) \o SubSeq(seq, i + 1, Len(seq))

FilterOut(seq, id) == SelectSeq(seq, LAMBDA inv : inv.id # id)

ActiveIds(props) == {props[i].id : i \in {j \in 1..Len(props) : ~props[j].isArchived}}

\* Steps that no claim observes leave this in lastEvent
NoEvent == [op |-> "none"]

CanStart == Len(inflight) < MaxInflight /\ started < MaxStarted

-----------------------------------------------------------------------------
(* authService: users and the session record in localStorage *)

User(id, email, name, role) ==
    [id |-> id, email |-> email, name |-> name, role |-> role]

\* getItem returned null: no record under the key
NoUser == User("", "", "", "NONE")

DEFAULT_ADMIN == User("admin-1", "admin@recost.ai", "Glowny Administrator", "ADMIN")

GOOGLE_USER == User("google-user-1", "user@gmail.com", "Pracownik Google", "USER")

UNKNOWN_USER_ERROR == "Uzytkownik nie istnieje. Skontaktuj sie z administratorem."

\* Emails typed into the login form, and String.prototype.includes('admin')
\* on them
LoginEmails ==
    {"admin@recost.ai", "anna@firma.pl", "superadmin@firma.pl", "jan@firma.pl"}

IncludesAdmin(email) == email \in {"admin@recost.ai", "superadmin@firma.pl"}

getSubUsers(ls) == ls

getCurrentUser(ls) == ls

FirstByEmail(users, email) ==
    users[CHOOSE i \in 1..Len(users) :
             /\ users[i].email = email
             /\ \A j \in 1..(i - 1) : users[j].email # email]

loginOutcomeMutant(users, email, clock) ==
    IF email = DEFAULT_ADMIN.email
    THEN [ok |-> TRUE, user |-> DEFAULT_ADMIN, error |-> ""]
    ELSE IF \E i \in 1..Len(users) : users[i].email = email
    THEN [ok |-> TRUE, user |-> FirstByEmail(users, email), error |-> ""]
    ELSE [ok |-> FALSE, user |-> NoUser, error |-> UNKNOWN_USER_ERROR]

\* the timer callback of login: the user it resolves with, or the error it
\* rejects with
loginOutcome(users, email, clock) ==
    IF email = DEFAULT_ADMIN.email
    THEN [ok |-> TRUE, user |-> DEFAULT_ADMIN, error |-> ""]
    ELSE IF \E i \in 1..Len(users) : users[i].email = email
    THEN [ok |-> TRUE, user |-> FirstByEmail(users, email), error |-> ""]
    ELSE IF IncludesAdmin(email)
    THEN [ok |-> TRUE, user |-> User(ToString(clock), email, "Admin", "ADMIN"),
          error |-> ""]
    ELSE [ok |-> FALSE, user |-> NoUser, error |-> UNKNOWN_USER_ERROR]

\* Math.random() > 0.5
googleOutcome(isLuck) == IF isLuck THEN DEFAULT_ADMIN ELSE GOOGLE_USER

logoutStoreMutant(ls) == ls

\* removeItem(STORAGE_KEY_CURRENT_USER)
logoutStore(ls) == NoUser

NewSubUserMutant(email, name, clock) ==
    User(ToString(clock), email, name,
         IF IncludesAdmin(email) THEN "ADMIN" ELSE "USER")

\* createSubUser: always the restricted role
NewSubUser(email, name, clock) == User(ToString(clock), email, name, "USER")

createSubUserStore(ls, email, name, clock) ==
    Append(getSubUsers(ls), NewSubUser(email, name, clock))

removeSubUserStore(ls, id) == SelectSeq(getSubUsers(ls), LAMBDA u : u.id # id)

\* A sub-user the administrator created on an earlier visit
ANNA == User("90", "anna@firma.pl", "Anna", "USER")

StoredUsers == {<<>>, <<ANNA>>}

\* The two folder settings; "" when the key is not set
Settings(sheet, scans) == [sheetFolder |-> sheet, scansFolder |-> scans]

NoSettings == Settings("", "")

NoAuthEvent == [op |-> "none"]

\* URLSearchParams.get('action') returned null: the parameter is absent
NoAction == "(absent)"

\* A session of the default administrator, nothing else stored, the
\* settings modal closed
InitLoggedIn ==
    /\ lsUsers = <<>>
    /\ lsCurrentUser = DEFAULT_ADMIN
    /\ lsSettings = NoSettings
    /\ currentUser = DEFAULT_ADMIN
    /\ isSettingsOpen = FALSE
    /\ activeTab = "general"
    /\ settingsForm = NoSettings
    /\ subUsers = <<>>
    /\ authEvent = NoAuthEvent
    /\ urlAction = NoAction
    /\ isAuthLoading = FALSE

\* What localStorage may hold under the history key when the page loads:
\* nothing, or the record an upload of an earlier visit left there
EarlierRecord ==
    uploadNewRecord(SubmitPayload([ManualDraft EXCEPT !.sellerName = JsStr("OLD")],
                                  "1", JsNull, ""), 0, 0, 99)

StoredHistories == {<<>>, <<EarlierRecord>>}

\* The application after the mount effect found a stored session and
\* called loadAppData
InitApp ==
    /\ lsProperties = <<>>
    /\ lsInvoices \in StoredHistories
    /\ status = "IDLE"
    /\ properties = <<>>
    /\ selectedPropertyId = ""
    /\ fileData = JsNull
    /\ fileMimeType = ""
    /\ invoiceData = JsNull
    /\ validationErrors = <<>>
    /\ ksefInvoices = <<>>
    /\ processingKsefId = ""
    /\ ksefPropertySelections = [k \in KsefIds |-> ""]
    /\ isPropertyManagerOpen = FALSE
    /\ history = <<>>
    /\ lastUploadLink = ""
    /\ inflight = << [kind |-> "loadProps", sel |-> ""] >>
    /\ now = 100
    /\ started = 0
    /\ lastEvent = NoEvent

Init ==
    /\ rawData = NoText
    /\ extracted = NoResult
    /\ InitApp
    /\ InitLoggedIn

-----------------------------------------------------------------------------
(* loadAppData, started by the mount effect for a stored session *)

\* await getProperties(); setProperties; setHistory; then the KSeF fetch
LoadPropsDone(i) ==
    /\ inflight[i].kind = "loadProps"
    /\ CanComplete(i)
    /\ LET props == getPropertiesResult(lsProperties) IN
       /\ lsProperties' = getPropertiesStore(lsProperties)
       /\ properties' = props
       /\ history' = getRecentInvoices(lsInvoices)
       /\ inflight' = Append(RemoveAt(inflight, i),
                             [kind |-> "loadKsef", props |-> props,
                              sel |-> inflight[i].sel])
    /\ lastEvent' = NoEvent
    /\ UNCHANGED <<authVars, rawData, extracted, lsInvoices, status, selectedPropertyId,
                   fileData, fileMimeType, invoiceData, validationErrors,
                   ksefInvoices, processingKsefId, ksefPropertySelections,
                   isPropertyManagerOpen, lastUploadLink, now, started>>

\* await getPendingKsefInvoices(); setKsefInvoices; default property, decided
\* with the selectedPropertyId the closure captured
LoadKsefDone(i) ==
    /\ inflight[i].kind = "loadKsef"
    /\ CanComplete(i)
    /\ ksefInvoices' = PendingKsefInvoices
    /\ selectedPropertyId' =
          IF Len(inflight[i].props) > 0 /\ inflight[i].sel = ""
          THEN inflight[i].props[1].id ELSE selectedPropertyId
    /\ inflight' = RemoveAt(inflight, i)
    /\ lastEvent' = NoEvent
    /\ UNCHANGED <<authVars, rawData, extracted, lsProperties, lsInvoices, status,
                   properties, fileData, fileMimeType, invoiceData,
                   validationErrors, processingKsefId, ksefPropertySelections,
                   isPropertyManagerOpen, history, lastUploadLink, now, started>>

-----------------------------------------------------------------------------
(* Dashboard and method selection *)

\* "Dodaj Nowy Koszt" on the dashboard
AddCost ==
    /\ status = "IDLE" /\ ~isPropertyManagerOpen
    /\ status' = "SELECT_METHOD"
    /\ lastEvent' = NoEvent
    /\ UNCHANGED <<authVars, rawData, extracted, lsProperties, lsInvoices, properties,
                   selectedPropertyId, fileData, fileMimeType, invoiceData,
                   validationErrors, ksefInvoices, processingKsefId,
                   ksefPropertySelections, isPropertyManagerOpen, history,
                   lastUploadLink, inflight, now, started>>

\* "Wroc" on the method selection
BackToDashboard ==
    /\ status = "SELECT_METHOD" /\ ~isPropertyManagerOpen
    /\ status' = "IDLE"
    /\ lastEvent' = NoEvent
    /\ UNCHANGED <<authVars, rawData, extracted, lsProperties, lsInvoices, properties,
                   selectedPropertyId, fileData, fileMimeType, invoiceData,
                   validationErrors, ksefInvoices, processingKsefId,
                   ksefPropertySelections, isPropertyManagerOpen, history,
                   lastUploadLink, inflight, now, started>>

\* handleFileSelect, the reader's onloadend and the start of processFile,
\* which holds the file and the property list it was called with
handleFileSelect(file) ==
    /\ status = "SELECT_METHOD" /\ ~isPropertyManagerOpen
    /\ CanStart
    /\ fileData' = DataUrl(file)
    /\ fileMimeType' = file.type
    /\ status' = "ANALYZING"
    /\ validationErrors' = <<>>
    /\ inflight' = Append(inflight, [kind |-> "extract", props |-> properties,
                                     file |-> DataUrl(file)])
    /\ started' = started + 1
    /\ lastEvent' = NoEvent
    /\ UNCHANGED <<authVars, rawData, extracted, lsProperties, lsInvoices, properties,
                   selectedPropertyId, invoiceData, ksefInvoices,
                   processingKsefId, ksefPropertySelections,
                   isPropertyManagerOpen, history, lastUploadLink, now>>

SuggestedMatchMutant(props, data) == Truthy(data.suggestedPropertyId)

\* result.suggestedPropertyId && properties.find(p => p.id === it)
SuggestedMatch(props, data) ==
    /\ Truthy(data.suggestedPropertyId)
    /\ data.suggestedPropertyId.type = "string"
    /\ FindProperty(props, data.suggestedPropertyId.s)

StatusAfterExtractMutant(ok) == "REVIEW"

\* setStatus(REVIEW) at the end of the try block, setStatus(SELECT_METHOD)
\* in the catch block
StatusAfterExtract(ok) == IF ok THEN "REVIEW" ELSE "SELECT_METHOD"

\* processFile after the await of extractInvoiceData
ExtractDone(i, resp) ==
    /\ inflight[i].kind = "extract"
    /\ CanComplete(i)
    /\ LET result == extractInvoiceData(resp) IN
       /\ IF result.ok
          THEN /\ invoiceData' = result.data
               /\ selectedPropertyId' =
                     IF SuggestedMatch(inflight[i].props, result.data)
                     THEN result.data.suggestedPropertyId.s
                     ELSE selectedPropertyId
          ELSE UNCHANGED <<invoiceData, selectedPropertyId>>
       /\ status' = StatusAfterExtract(result.ok)
       /\ lastEvent' = [op |-> "extractDone", ok |-> result.ok,
                        error |-> result.error,
                        data |-> result.data, props |-> inflight[i].props,
                        selBefore |-> selectedPropertyId]
    /\ inflight' = RemoveAt(inflight, i)
    /\ UNCHANGED <<authVars, rawData, extracted, lsProperties, lsInvoices, properties,
                   fileData, fileMimeType, validationErrors, ksefInvoices,
                   processingKsefId, ksefPropertySelections,
                   isPropertyManagerOpen, history, lastUploadLink, now, started>>

handleManualEntry ==
    /\ status = "SELECT_METHOD" /\ ~isPropertyManagerOpen
    /\ fileData' = JsNull
    /\ fileMimeType' = ""
    /\ invoiceData' = ManualDraft
    /\ validationErrors' = <<>>
    /\ status' = "REVIEW"
    /\ lastEvent' = NoEvent
    /\ UNCHANGED <<authVars, rawData, extracted, lsProperties, lsInvoices, properties,
                   selectedPropertyId, ksefInvoices, processingKsefId,
                   ksefPropertySelections, isPropertyManagerOpen, history,
                   lastUploadLink, inflight, now, started>>

-----------------------------------------------------------------------------
(* Review form: renderReview shows nothing while there is no draft *)

ReviewShown == status = "REVIEW" /\ invoiceData # JsNull /\ ~isPropertyManagerOpen

\* the property <select>: the placeholder or an active property
SelectProperty(id) ==
    /\ ReviewShown
    /\ id \in {""} \cup ActiveIds(properties)
    /\ selectedPropertyId' = id
    /\ lastEvent' = NoEvent
    /\ UNCHANGED <<authVars, rawData, extracted, lsProperties, lsInvoices, status,
                   properties, fileData, fileMimeType, invoiceData,
                   validationErrors, ksefInvoices, processingKsefId,
                   ksefPropertySelections, isPropertyManagerOpen, history,
                   lastUploadLink, inflight, now, started>>

\* onChange of the text and amount inputs: {...invoiceData, field: value};
\* amounts go through parseFloat(value) || 0
EditDraft(field, value) ==
    /\ ReviewShown
    /\ invoiceData' = [invoiceData EXCEPT ![field] = value]
    /\ lastEvent' = NoEvent
    /\ UNCHANGED <<authVars, rawData, extracted, lsProperties, lsInvoices, status,
                   properties, selectedPropertyId, fileData, fileMimeType,
                   validationErrors, ksefInvoices, processingKsefId,
                   ksefPropertySelections, isPropertyManagerOpen, history,
                   lastUploadLink, inflight, now, started>>

EditInputs ==
    {<<"sellerName", JsStr(v)>> : v \in SellerInputs} \cup
    {<<"date", JsStr(v)>> : v \in DateInputs} \cup
    {<<"grossAmount", JsNum(v)>> : v \in GrossInputs}

handleSubmit ==
    /\ ReviewShown
    /\ LET errors == Validate(selectedPropertyId, invoiceData) IN
       IF Len(errors) > 0
       THEN /\ validationErrors' = errors
            /\ lastEvent' = [op |-> "handleSubmit", uploadStarted |-> FALSE]
            /\ UNCHANGED <<status, inflight, started>>
       ELSE /\ CanStart
            /\ validationErrors' = <<>>
            /\ status' = "UPLOADING"
            /\ inflight' = Append(inflight,
                  [kind |-> "upload",
                   payload |-> SubmitPayload(invoiceData, selectedPropertyId,
                                             fileData, fileMimeType)])
            /\ started' = started + 1
            /\ lastEvent' = [op |-> "handleSubmit", uploadStarted |-> TRUE]
    /\ UNCHANGED <<authVars, rawData, extracted, lsProperties, lsInvoices, properties,
                   selectedPropertyId, fileData, fileMimeType, invoiceData,
                   ksefInvoices, processingKsefId, ksefPropertySelections,
                   isPropertyManagerOpen, history, lastUploadLink, now>>

StatusAfterUploadStuckMutant(ok) == IF ok THEN "SUCCESS" ELSE "UPLOADING"

StatusAfterUploadMutant(ok) == IF ok THEN "SUCCESS" ELSE "SELECT_METHOD"

\* setStatus(SUCCESS) after the await, setStatus(REVIEW) in the catch block
StatusAfterUpload(ok) == IF ok THEN "SUCCESS" ELSE "REVIEW"

\* handleSubmit after the await of uploadInvoiceToCloud.  The upload rejects
\* when reading or writing localStorage throws.
UploadDone(i, ok, r1, r2, t) ==
    /\ inflight[i].kind = "upload"
    /\ CanComplete(i)
    /\ IF ok
       THEN /\ lsInvoices' = uploadStore(lsInvoices, inflight[i].payload, r1, r2, t)
            /\ now' = t
            /\ lastUploadLink' = uploadResult(inflight[i].payload, r1, r2).driveLink
            /\ history' = getRecentInvoices(lsInvoices')
            /\ status' = StatusAfterUpload(TRUE)
       ELSE /\ status' = StatusAfterUpload(FALSE)
            /\ UNCHANGED <<lsInvoices, now, lastUploadLink, history>>
    /\ inflight' = RemoveAt(inflight, i)
    /\ lastEvent' = [op |-> "uploadDone", ok |-> ok,
                     payload |-> inflight[i].payload,
                     result |-> uploadResult(inflight[i].payload, r1, r2)]
    /\ UNCHANGED <<authVars, rawData, extracted, lsProperties, properties,
                   selectedPropertyId, fileData, fileMimeType, invoiceData,
                   validationErrors, ksefInvoices, processingKsefId,
                   ksefPropertySelections, isPropertyManagerOpen, started>>

\* "Anuluj", "Wroc do startu" and the navbar logo
RefreshOnResetMutant == <<>>

\* getPendingKsefInvoices() called at the end of resetFlow
RefreshOnReset == <<[kind |-> "resetKsef"]>>

resetFlow ==
    /\ ~isPropertyManagerOpen
    /\ CanStart
    /\ status' = "IDLE"
    /\ fileData' = JsNull
    /\ fileMimeType' = ""
    /\ invoiceData' = JsNull
    /\ validationErrors' = <<>>
    /\ lastUploadLink' = ""
    /\ inflight' = inflight \o RefreshOnReset
    /\ started' = started + 1
    /\ lastEvent' = NoEvent
    /\ UNCHANGED <<authVars, rawData, extracted, lsProperties, lsInvoices, properties,
                   selectedPropertyId, ksefInvoices, processingKsefId,
                   ksefPropertySelections, isPropertyManagerOpen, history, now>>

\* getPendingKsefInvoices().then(setKsefInvoices)
ResetKsefDone(i) ==
    /\ inflight[i].kind = "resetKsef"
    /\ CanComplete(i)
    /\ ksefInvoices' = PendingKsefInvoices
    /\ inflight' = RemoveAt(inflight, i)
    /\ lastEvent' = [op |-> "resetKsefDone"]
    /\ UNCHANGED <<authVars, rawData, extracted, lsProperties, lsInvoices, status,
                   properties, selectedPropertyId, fileData, fileMimeType,
                   invoiceData, validationErrors, processingKsefId,
                   ksefPropertySelections, isPropertyManagerOpen, history,
                   lastUploadLink, now, started>>

-----------------------------------------------------------------------------
(* KSeF inbox *)

handleOpenKsef ==
    /\ status = "IDLE" /\ ~isPropertyManagerOpen
    /\ CanStart
    /\ status' = "ANALYZING"
    /\ inflight' = Append(inflight, [kind |-> "openKsef"])
    /\ started' = started + 1
    /\ lastEvent' = NoEvent
    /\ UNCHANGED <<authVars, rawData, extracted, lsProperties, lsInvoices, properties,
                   selectedPropertyId, fileData, fileMimeType, invoiceData,
                   validationErrors, ksefInvoices, processingKsefId,
                   ksefPropertySelections, isPropertyManagerOpen, history,
                   lastUploadLink, now>>

OpenedPendingMutant(current) ==
    IF current # <<>> THEN current ELSE PendingKsefInvoices

\* setKsefInvoices(invoices): the fetched list replaces the list in memory
OpenedPending(current) == PendingKsefInvoices

\* handleOpenKsef after the await; the fetch never rejects
OpenKsefDone(i) ==
    /\ inflight[i].kind = "openKsef"
    /\ CanComplete(i)
    /\ ksefInvoices' = OpenedPending(ksefInvoices)
    /\ status' = "KSEF_INBOX"
    /\ inflight' = RemoveAt(inflight, i)
    /\ lastEvent' = [op |-> "openKsefDone", shownBefore |-> Len(ksefInvoices)]
    /\ UNCHANGED <<authVars, rawData, extracted, lsProperties, lsInvoices, properties,
                   selectedPropertyId, fileData, fileMimeType, invoiceData,
                   validationErrors, processingKsefId, ksefPropertySelections,
                   isPropertyManagerOpen, history, lastUploadLink, now, started>>

\* "Zamknij" in the inbox: setStatus(IDLE) only
CloseKsef ==
    /\ status = "KSEF_INBOX" /\ ~isPropertyManagerOpen
    /\ status' = "IDLE"
    /\ lastEvent' = NoEvent
    /\ UNCHANGED <<authVars, rawData, extracted, lsProperties, lsInvoices, properties,
                   selectedPropertyId, fileData, fileMimeType, invoiceData,
                   validationErrors, ksefInvoices, processingKsefId,
                   ksefPropertySelections, isPropertyManagerOpen, history,
                   lastUploadLink, inflight, now, started>>

KsefShown(id) ==
    /\ status = "KSEF_INBOX" /\ ~isPropertyManagerOpen
    /\ \E k \in 1..Len(ksefInvoices) : ksefInvoices[k].id = id

\* Rows whose property <select> the user changes
KsefChangeIds == {"ksef_1"}

handleKsefPropertyChange(invoiceId, propertyId) ==
    /\ KsefShown(invoiceId)
    /\ propertyId \in ActiveIds(properties)
    /\ ksefPropertySelections' =
          [ksefPropertySelections EXCEPT ![invoiceId] = propertyId]
    /\ lastEvent' = NoEvent
    /\ UNCHANGED <<authVars, rawData, extracted, lsProperties, lsInvoices, status,
                   properties, selectedPropertyId, fileData, fileMimeType,
                   invoiceData, validationErrors, ksefInvoices,
                   processingKsefId, isPropertyManagerOpen, history,
                   lastUploadLink, inflight, now, started>>

\* ksefPropertySelections[invoice.id] || selectedPropertyId
TargetPropertyId(invoiceId) ==
    IF ksefPropertySelections[invoiceId] # ""
    THEN ksefPropertySelections[invoiceId] ELSE selectedPropertyId

\* "Zaksieguj": the button of a row is disabled only while that row is the
\* one in processingKsefId
handleApproveKsef(k) ==
    /\ k \in 1..Len(ksefInvoices)
    /\ KsefShown(ksefInvoices[k].id)
    /\ processingKsefId # ksefInvoices[k].id
    /\ LET invoice == ksefInvoices[k]
           target == TargetPropertyId(invoice.id) IN
       IF target = ""
       THEN /\ lastEvent' = NoEvent
            /\ UNCHANGED <<processingKsefId, inflight, started>>
       ELSE /\ CanStart
            /\ processingKsefId' = invoice.id
            /\ inflight' = Append(inflight,
                  [kind |-> "approve", invoice |-> invoice,
                   snapshot |-> ksefInvoices,
                   payload |-> ApprovePayload(invoice, target)])
            /\ started' = started + 1
            /\ lastEvent' = [op |-> "approve", id |-> invoice.id]
    /\ UNCHANGED <<authVars, rawData, extracted, lsProperties, lsInvoices, status,
                   properties, selectedPropertyId, fileData, fileMimeType,
                   invoiceData, validationErrors, ksefInvoices,
                   ksefPropertySelections, isPropertyManagerOpen, history,
                   lastUploadLink, now>>

RemainingMutant(snapshot, id) == SelectSeq(snapshot, LAMBDA inv : inv.id = id)

\* ksefInvoices.filter(i => i.id !== invoice.id), on the list the handler's
\* closure captured when the button was pressed
Remaining(snapshot, id) == FilterOut(snapshot, id)

\* handleApproveKsef after the await of uploadInvoiceToCloud
ApproveDone(i, ok, r2, t) ==
    /\ inflight[i].kind = "approve"
    /\ CanComplete(i)
    /\ LET task == inflight[i]
           remaining == Remaining(task.snapshot, task.invoice.id) IN
       /\ IF ok
          THEN /\ lsInvoices' = uploadStore(lsInvoices, task.payload, 0, r2, t)
               /\ now' = t
               /\ ksefInvoices' = remaining
               /\ history' = getRecentInvoices(lsInvoices')
               /\ IF Len(remaining) = 0
                  THEN lastUploadLink' = "" /\ status' = "SUCCESS"
                  ELSE UNCHANGED <<lastUploadLink, status>>
          ELSE UNCHANGED <<lsInvoices, now, ksefInvoices, history,
                           lastUploadLink, status>>
       /\ lastEvent' = [op |-> "approveDone", ok |-> ok,
                        id |-> task.invoice.id, pendingBefore |-> ksefInvoices,
                        statusBefore |-> status]
    /\ processingKsefId' = ""
    /\ inflight' = RemoveAt(inflight, i)
    /\ UNCHANGED <<authVars, rawData, extracted, lsProperties, properties,
                   selectedPropertyId, fileData, fileMimeType, invoiceData,
                   validationErrors, ksefPropertySelections,
                   isPropertyManagerOpen, started>>

-----------------------------------------------------------------------------
(* Property manager (PropertyManager.tsx) and handlePropertySave *)

\* opened from the dashboard ('list') and from the review form ('add')
openPropertyManager ==
    /\ ~isPropertyManagerOpen
    /\ status = "IDLE" \/ (status = "REVIEW" /\ invoiceData # JsNull)
    /\ isPropertyManagerOpen' = TRUE
    /\ lastEvent' = NoEvent
    /\ UNCHANGED <<authVars, rawData, extracted, lsProperties, lsInvoices, status,
                   properties, selectedPropertyId, fileData, fileMimeType,
                   invoiceData, validationErrors, ksefInvoices,
                   processingKsefId, ksefPropertySelections, history,
                   lastUploadLink, inflight, now, started>>

closePropertyManager ==
    /\ isPropertyManagerOpen
    /\ isPropertyManagerOpen' = FALSE
    /\ lastEvent' = NoEvent
    /\ UNCHANGED <<authVars, rawData, extracted, lsProperties, lsInvoices, status,
                   properties, selectedPropertyId, fileData, fileMimeType,
                   invoiceData, validationErrors, ksefInvoices,
                   processingKsefId, ksefPropertySelections, history,
                   lastUploadLink, inflight, now, started>>

\* Addresses the user types into the "add" form
AddressInputs == {"ul. Nowa 1"}

\* handleAdd: a new property whose id is the time of the click; the modal
\* closes at once.  Time has passed since the previous reading of the clock.
handleAdd(address) ==
    /\ isPropertyManagerOpen
    /\ CanStart
    /\ now' = now + 1
    /\ inflight' = Append(inflight,
          [kind |-> "saveProp",
           property |-> Property(ToString(now'), address, FALSE, ""),
           props |-> properties])
    /\ isPropertyManagerOpen' = FALSE
    /\ started' = started + 1
    /\ lastEvent' = NoEvent
    /\ UNCHANGED <<authVars, rawData, extracted, lsProperties, lsInvoices, status,
                   properties, selectedPropertyId, fileData, fileMimeType,
                   invoiceData, validationErrors, ksefInvoices,
                   processingKsefId, ksefPropertySelections, history,
                   lastUploadLink>>

\* toggleArchive on a row of the list the modal was rendered with
toggleArchive(k) ==
    /\ isPropertyManagerOpen
    /\ k \in 1..Len(properties)
    /\ CanStart
    /\ inflight' = Append(inflight,
          [kind |-> "saveProp",
           property |-> [properties[k] EXCEPT !.isArchived = ~properties[k].isArchived],
           props |-> properties])
    /\ started' = started + 1
    /\ lastEvent' = NoEvent
    /\ UNCHANGED <<authVars, rawData, extracted, lsProperties, lsInvoices, status,
                   properties, selectedPropertyId, fileData, fileMimeType,
                   invoiceData, validationErrors, ksefInvoices,
                   processingKsefId, ksefPropertySelections,
                   isPropertyManagerOpen, history, lastUploadLink, now>>

\* handlePropertySave after the await of saveProperty; getProperties is
\* awaited next
SavePropDone(i, t) ==
    /\ inflight[i].kind = "saveProp"
    /\ CanComplete(i)
    /\ lsProperties' = savePropertyStore(lsProperties, inflight[i].property, t)
    /\ now' = t
    /\ inflight' = Append(RemoveAt(inflight, i),
          [kind |-> "reloadProps",
           updated |-> savePropertyResult(inflight[i].property),
           props |-> inflight[i].props])
    /\ lastEvent' = [op |-> "savePropDone", property |-> inflight[i].property,
                     storeBefore |-> lsProperties,
                     listedBefore |-> getPropertiesResult(lsProperties)]
    /\ UNCHANGED <<authVars, rawData, extracted, lsInvoices, status, properties,
                   selectedPropertyId, fileData, fileMimeType, invoiceData,
                   validationErrors, ksefInvoices, processingKsefId,
                   ksefPropertySelections, isPropertyManagerOpen, history,
                   lastUploadLink, started>>

\* handlePropertySave after the await of getProperties
ReloadPropsDone(i) ==
    /\ inflight[i].kind = "reloadProps"
    /\ CanComplete(i)
    /\ LET all == getPropertiesResult(lsProperties) IN
       /\ lsProperties' = getPropertiesStore(lsProperties)
       /\ properties' = all
       /\ selectedPropertyId' =
             IF ~FindProperty(inflight[i].props, inflight[i].updated.id)
             THEN inflight[i].updated.id ELSE selectedPropertyId
       /\ lastEvent' = [op |-> "reloadPropsDone",
                        updated |-> inflight[i].updated, all |-> all]
    /\ inflight' = RemoveAt(inflight, i)
    /\ UNCHANGED <<authVars, rawData, extracted, lsInvoices, status, fileData,
                   fileMimeType, invoiceData, validationErrors, ksefInvoices,
                   processingKsefId, ksefPropertySelections,
                   isPropertyManagerOpen, history, lastUploadLink, now, started>>

-----------------------------------------------------------------------------
(* authService called directly: login, loginWithGoogle, logout *)

AuthResult(op, email, outcome) ==
    [op |-> op, email |-> email, ok |-> outcome.ok, user |-> outcome.user,
     error |-> outcome.error]

\* login(email) up to the setTimeout
login(email) ==
    /\ CanStart
    /\ inflight' = Append(inflight, [kind |-> "login", email |-> email])
    /\ started' = started + 1
    /\ UNCHANGED <<rawData, extracted, lsProperties, lsInvoices, status,
                   properties, selectedPropertyId, fileData, fileMimeType,
                   invoiceData, validationErrors, ksefInvoices,
                   processingKsefId, ksefPropertySelections,
                   isPropertyManagerOpen, history, lastUploadLink, now,
                   lastEvent, authVars>>

\* the timer callback of login
LoginResolved(i, t) ==
    /\ inflight[i].kind = "login"
    /\ CanComplete(i)
    /\ LET outcome == loginOutcome(getSubUsers(lsUsers), inflight[i].email, t) IN
       /\ lsCurrentUser' = IF outcome.ok THEN outcome.user ELSE lsCurrentUser
       /\ now' = IF outcome.ok /\ outcome.user.id = ToString(t) THEN t ELSE now
       /\ authEvent' = AuthResult("login", inflight[i].email, outcome)
    /\ inflight' = RemoveAt(inflight, i)
    /\ UNCHANGED <<rawData, extracted, lsProperties, lsInvoices, status,
                   properties, selectedPropertyId, fileData, fileMimeType,
                   invoiceData, validationErrors, ksefInvoices,
                   processingKsefId, ksefPropertySelections,
                   isPropertyManagerOpen, history, lastUploadLink, started,
                   lastEvent, lsUsers, lsSettings, currentUser, urlAction, isAuthLoading,
                   isSettingsOpen, activeTab, settingsForm, subUsers>>

loginWithGoogle ==
    /\ CanStart
    /\ inflight' = Append(inflight, [kind |-> "google"])
    /\ started' = started + 1
    /\ UNCHANGED <<rawData, extracted, lsProperties, lsInvoices, status,
                   properties, selectedPropertyId, fileData, fileMimeType,
                   invoiceData, validationErrors, ksefInvoices,
                   processingKsefId, ksefPropertySelections,
                   isPropertyManagerOpen, history, lastUploadLink, now,
                   lastEvent, authVars>>

\* the timer callback of loginWithGoogle: it never rejects
GoogleResolved(i, isLuck) ==
    /\ inflight[i].kind = "google"
    /\ CanComplete(i)
    /\ lsCurrentUser' = googleOutcome(isLuck)
    /\ authEvent' = AuthResult("google", "",
                       [ok |-> TRUE, user |-> googleOutcome(isLuck), error |-> ""])
    /\ inflight' = RemoveAt(inflight, i)
    /\ UNCHANGED <<rawData, extracted, lsProperties, lsInvoices, status,
                   properties, selectedPropertyId, fileData, fileMimeType,
                   invoiceData, validationErrors, ksefInvoices,
                   processingKsefId, ksefPropertySelections,
                   isPropertyManagerOpen, history, lastUploadLink, now,
                   started, lastEvent, lsUsers, lsSettings, currentUser, urlAction, isAuthLoading,
                   isSettingsOpen, activeTab, settingsForm, subUsers>>

logout ==
    /\ lsCurrentUser' = logoutStore(lsCurrentUser)
    /\ authEvent' = AuthResult("logout", "",
                       [ok |-> TRUE, user |-> NoUser, error |-> ""])
    /\ UNCHANGED <<rawData, extracted, lsProperties, lsInvoices, status,
                   properties, selectedPropertyId, fileData, fileMimeType,
                   invoiceData, validationErrors, ksefInvoices,
                   processingKsefId, ksefPropertySelections,
                   isPropertyManagerOpen, history, lastUploadLink, inflight,
                   now, started, lastEvent, lsUsers, lsSettings, currentUser, urlAction, isAuthLoading,
                   isSettingsOpen, activeTab, settingsForm, subUsers>>

\* createSubUser(email, name): synchronous
createSubUser(email, name, t) ==
    /\ started < MaxStarted
    /\ lsUsers' = createSubUserStore(lsUsers, email, name, t)
    /\ now' = t
    /\ started' = started + 1
    /\ authEvent' = AuthResult("createSubUser", email,
                       [ok |-> TRUE, user |-> NewSubUser(email, name, t),
                        error |-> ""])
    /\ UNCHANGED <<rawData, extracted, lsProperties, lsInvoices, status,
                   properties, selectedPropertyId, fileData, fileMimeType,
                   invoiceData, validationErrors, ksefInvoices,
                   processingKsefId, ksefPropertySelections,
                   isPropertyManagerOpen, history, lastUploadLink, inflight,
                   lastEvent, lsCurrentUser, lsSettings, currentUser,
                   urlAction, isAuthLoading, isSettingsOpen, activeTab,
                   settingsForm, subUsers>>

-----------------------------------------------------------------------------
(* The page: mount effect, deep link, the login form, logout (App.tsx and   *)
(* Login.tsx)                                                              *)

checkDeepLinkMutant(action, current) ==
    IF action # NoAction THEN "SELECT_METHOD" ELSE current

\* checkDeepLink: the status it leaves, given the action parameter
checkDeepLink(action, current) ==
    IF action = "new" THEN "SELECT_METHOD" ELSE current

\* what App renders: the spinner while isAuthLoading, the login form while
\* there is no user, the application otherwise
LoginShown == ~isAuthLoading /\ currentUser = NoUser

MainShown == ~isAuthLoading /\ currentUser # NoUser

\* the mount effect: the stored session, and for a stored session
\* loadAppData and checkDeepLink
Mount ==
    /\ isAuthLoading
    /\ LET user == getCurrentUser(lsCurrentUser) IN
       /\ currentUser' = user
       /\ isAuthLoading' = FALSE
       /\ IF user # NoUser
          THEN /\ inflight' = Append(inflight, [kind |-> "loadProps",
                                                sel |-> selectedPropertyId])
               /\ status' = checkDeepLink(urlAction, status)
          ELSE UNCHANGED <<inflight, status>>
       /\ authEvent' = AuthResult("mount", "",
                          [ok |-> user # NoUser, user |-> user, error |-> ""])
    /\ UNCHANGED <<rawData, extracted, lsProperties, lsInvoices, properties,
                   selectedPropertyId, fileData, fileMimeType, invoiceData,
                   validationErrors, ksefInvoices, processingKsefId,
                   ksefPropertySelections, isPropertyManagerOpen, history,
                   lastUploadLink, now, started, lastEvent, lsUsers,
                   lsCurrentUser, lsSettings, urlAction, isSettingsOpen,
                   activeTab, settingsForm, subUsers>>

\* Login.tsx isLoading: set before the await, cleared in the finally block
LoginLoading ==
    \E j \in 1..Len(inflight) : inflight[j].kind = "emailLogin"

\* handleEmailLogin up to the await; the handler holds the onLoginSuccess it
\* was rendered with, and through it the selectedPropertyId of that render
handleEmailLogin(email) ==
    /\ LoginShown
    /\ ~LoginLoading
    /\ CanStart
    /\ inflight' = Append(inflight, [kind |-> "emailLogin", email |-> email,
                                     sel |-> selectedPropertyId])
    /\ started' = started + 1
    /\ UNCHANGED <<rawData, extracted, lsProperties, lsInvoices, status,
                   properties, selectedPropertyId, fileData, fileMimeType,
                   invoiceData, validationErrors, ksefInvoices,
                   processingKsefId, ksefPropertySelections,
                   isPropertyManagerOpen, history, lastUploadLink, now,
                   lastEvent, authVars>>

\* the timer callback of authService.login and, when it resolved,
\* handleLoginSuccess: setCurrentUser, loadAppData, checkDeepLink; when it
\* rejected the form shows the error
EmailLoginDone(i, t) ==
    /\ inflight[i].kind = "emailLogin"
    /\ CanComplete(i)
    /\ LET outcome == loginOutcome(getSubUsers(lsUsers), inflight[i].email, t) IN
       /\ now' = IF outcome.ok /\ outcome.user.id = ToString(t) THEN t ELSE now
       /\ authEvent' = AuthResult("emailLogin", inflight[i].email, outcome)
       /\ IF outcome.ok
          THEN /\ lsCurrentUser' = outcome.user
               /\ currentUser' = outcome.user
               /\ inflight' = Append(RemoveAt(inflight, i),
                                     [kind |-> "loadProps", sel |-> inflight[i].sel])
               /\ status' = checkDeepLink(urlAction, status)
          ELSE /\ inflight' = RemoveAt(inflight, i)
               /\ UNCHANGED <<lsCurrentUser, currentUser, status>>
    /\ UNCHANGED <<rawData, extracted, lsProperties, lsInvoices, properties,
                   selectedPropertyId, fileData, fileMimeType, invoiceData,
                   validationErrors, ksefInvoices, processingKsefId,
                   ksefPropertySelections, isPropertyManagerOpen, history,
                   lastUploadLink, started, lastEvent, lsUsers, lsSettings,
                   urlAction, isAuthLoading, isSettingsOpen, activeTab,
                   settingsForm, subUsers>>

\* the navbar's logout button
handleLogout ==
    /\ MainShown
    /\ ~isPropertyManagerOpen /\ ~isSettingsOpen
    /\ lsCurrentUser' = logoutStore(lsCurrentUser)
    /\ currentUser' = NoUser
    /\ status' = "IDLE"
    /\ invoiceData' = JsNull
    /\ authEvent' = AuthResult("handleLogout", "",
                       [ok |-> TRUE, user |-> NoUser, error |-> ""])
    /\ UNCHANGED <<rawData, extracted, lsProperties, lsInvoices, properties,
                   selectedPropertyId, fileData, fileMimeType,
                   validationErrors, ksefInvoices, processingKsefId,
                   ksefPropertySelections, isPropertyManagerOpen, history,
                   lastUploadLink, inflight, now, started, lastEvent,
                   lsUsers, lsSettings, urlAction, isAuthLoading,
                   isSettingsOpen, activeTab, settingsForm, subUsers>>

-----------------------------------------------------------------------------
(* SettingsModal *)

IsAdmin(user) == user.role = "ADMIN"

TabsShownMutant(user) == TRUE

\* the tab bar, the save button and the enabled inputs are rendered for an
\* administrator only
TabsShown(user) == IsAdmin(user)

\* the navbar button; the modal's mount effect loads the stored folders and,
\* for an administrator, the sub-users
openSettings ==
    /\ currentUser # NoUser
    /\ ~isSettingsOpen /\ ~isPropertyManagerOpen
    /\ isSettingsOpen' = TRUE
    /\ activeTab' = "general"
    /\ settingsForm' = lsSettings
    /\ subUsers' = IF IsAdmin(currentUser) THEN getSubUsers(lsUsers) ELSE <<>>
    /\ UNCHANGED <<rawData, extracted, appVars, lsUsers, lsCurrentUser,
                   lsSettings, currentUser, urlAction, isAuthLoading, authEvent>>

closeSettings ==
    /\ isSettingsOpen
    /\ isSettingsOpen' = FALSE
    /\ UNCHANGED <<rawData, extracted, appVars, lsUsers, lsCurrentUser,
                   lsSettings, currentUser, urlAction, isAuthLoading, activeTab, settingsForm, subUsers,
                   authEvent>>

setActiveTab(tab) ==
    /\ isSettingsOpen
    /\ TabsShown(currentUser)
    /\ activeTab' = tab
    /\ UNCHANGED <<rawData, extracted, appVars, lsUsers, lsCurrentUser,
                   lsSettings, currentUser, urlAction, isAuthLoading, isSettingsOpen, settingsForm,
                   subUsers, authEvent>>

FolderInputs == {"/RECOST/Data"}

\* the two folder inputs are disabled unless isAdmin
setSheetFolder(v) ==
    /\ isSettingsOpen /\ activeTab = "general"
    /\ IsAdmin(currentUser)
    /\ settingsForm' = [settingsForm EXCEPT !.sheetFolder = v]
    /\ UNCHANGED <<rawData, extracted, appVars, lsUsers, lsCurrentUser,
                   lsSettings, currentUser, urlAction, isAuthLoading, isSettingsOpen, activeTab,
                   subUsers, authEvent>>

setScansFolder(v) ==
    /\ isSettingsOpen /\ activeTab = "general"
    /\ IsAdmin(currentUser)
    /\ settingsForm' = [settingsForm EXCEPT !.scansFolder = v]
    /\ UNCHANGED <<rawData, extracted, appVars, lsUsers, lsCurrentUser,
                   lsSettings, currentUser, urlAction, isAuthLoading, isSettingsOpen, activeTab,
                   subUsers, authEvent>>

\* the save button is rendered for an administrator only, and the handler
\* returns at once for anyone else
handleSaveSettings ==
    /\ isSettingsOpen /\ activeTab = "general"
    /\ TabsShown(currentUser)
    /\ IF ~IsAdmin(currentUser)
       THEN UNCHANGED <<lsSettings, isSettingsOpen>>
       ELSE /\ lsSettings' = settingsForm
            /\ isSettingsOpen' = FALSE
    /\ authEvent' = [op |-> "saveSettings"]
    /\ UNCHANGED <<rawData, extracted, appVars, lsUsers, lsCurrentUser,
                   currentUser, urlAction, isAuthLoading, activeTab, settingsForm, subUsers>>

NewUserInputs == {<<"ewa@firma.pl", "Ewa">>}

\* the form of the users tab; both inputs are required
handleAddUser(email, name, t) ==
    /\ isSettingsOpen /\ activeTab = "users"
    /\ email # "" /\ name # ""
    /\ started < MaxStarted
    /\ lsUsers' = createSubUserStore(lsUsers, email, name, t)
    /\ subUsers' = Append(subUsers, NewSubUser(email, name, t))
    /\ now' = t
    /\ started' = started + 1
    /\ authEvent' = [op |-> "addUser"]
    /\ UNCHANGED <<rawData, extracted, lsProperties, lsInvoices, status,
                   properties, selectedPropertyId, fileData, fileMimeType,
                   invoiceData, validationErrors, ksefInvoices,
                   processingKsefId, ksefPropertySelections,
                   isPropertyManagerOpen, history, lastUploadLink, inflight,
                   lastEvent, lsCurrentUser, lsSettings, currentUser, urlAction, isAuthLoading,
                   isSettingsOpen, activeTab, settingsForm>>

handleRemoveUser(k) ==
    /\ isSettingsOpen /\ activeTab = "users"
    /\ k \in 1..Len(subUsers)
    /\ lsUsers' = removeSubUserStore(lsUsers, subUsers[k].id)
    /\ subUsers' = SelectSeq(subUsers, LAMBDA u : u.id # subUsers[k].id)
    /\ authEvent' = [op |-> "removeUser"]
    /\ UNCHANGED <<rawData, extracted, appVars, lsCurrentUser, lsSettings,
                   currentUser, urlAction, isAuthLoading, isSettingsOpen, activeTab, settingsForm>>

-----------------------------------------------------------------------------
(* Specification of the application *)

\* Date.now() in a timer callback: later than the previous reading, the
\* callbacks that read the clock being a timer delay apart
ClockReadings == {now + 1}

LoadSteps ==
    \/ \E i \in 1..Len(inflight) : LoadPropsDone(i)
    \/ \E i \in 1..Len(inflight) : LoadKsefDone(i)

ResetSteps ==
    \/ resetFlow
    \/ \E i \in 1..Len(inflight) : ResetKsefDone(i)

ReviewSteps ==
    \/ AddCost
    \/ BackToDashboard
    \/ \E file \in Files : handleFileSelect(file)
    \/ \E i \in 1..Len(inflight), resp \in AppResponses : ExtractDone(i, resp)
    \/ handleManualEntry
    \/ \E id \in {""} \cup PropertyIds(properties) : SelectProperty(id)
    \/ \E e \in EditInputs : EditDraft(e[1], e[2])
    \/ handleSubmit
    \/ \E i \in 1..Len(inflight), ok \in BOOLEAN, r1 \in RandomPermille,
          r2 \in RandomPermille, t \in ClockReadings : UploadDone(i, ok, r1, r2, t)

KsefSteps ==
    \/ handleOpenKsef
    \/ \E i \in 1..Len(inflight) : OpenKsefDone(i)
    \/ CloseKsef
    \/ \E id \in KsefChangeIds, pid \in PropertyIds(properties) :
          handleKsefPropertyChange(id, pid)
    \/ \E k \in 1..Len(ksefInvoices) : handleApproveKsef(k)
    \/ \E i \in 1..Len(inflight), ok \in BOOLEAN, r2 \in RandomPermille,
          t \in ClockReadings : ApproveDone(i, ok, r2, t)

PropertySteps ==
    \/ openPropertyManager
    \/ closePropertyManager
    \/ \E a \in AddressInputs : handleAdd(a)
    \/ \E k \in 1..Len(properties) : toggleArchive(k)
    \/ \E i \in 1..Len(inflight), t \in ClockReadings : SavePropDone(i, t)
    \/ \E i \in 1..Len(inflight) : ReloadPropsDone(i)

\* The whole application
Next == LoadSteps \/ ResetSteps \/ ReviewSteps \/ KsefSteps \/ PropertySteps

Spec == Init /\ [][Next]_vars

\* The add-cost flow: method selection, extraction, review, submission
NextReview == LoadSteps \/ ResetSteps \/ ReviewSteps

SpecReview == Init /\ [][NextReview]_vars

\* The KSeF inbox
NextKsef == LoadSteps \/ ResetSteps \/ KsefSteps

SpecKsef == Init /\ [][NextKsef]_vars

\* Manual entry and the KSeF inbox together, with the ways back to the
\* dashboard: resetFlow, the inbox close button, the method-selection back
\* button
ManualSteps ==
    \/ AddCost
    \/ BackToDashboard
    \/ handleManualEntry
    \/ handleSubmit

NextReset == LoadSteps \/ ResetSteps \/ KsefSteps \/ ManualSteps

SpecReset == Init /\ [][NextReset]_vars

\* Manual entry alone: no file is chosen, the user fills the form
ManualEntrySteps ==
    \/ AddCost
    \/ BackToDashboard
    \/ handleManualEntry
    \/ \E id \in {""} \cup PropertyIds(properties) : SelectProperty(id)
    \/ \E e \in EditInputs : EditDraft(e[1], e[2])
    \/ handleSubmit
    \/ \E i \in 1..Len(inflight), ok \in BOOLEAN, r1 \in RandomPermille,
          r2 \in RandomPermille, t \in ClockReadings : UploadDone(i, ok, r1, r2, t)

NextManual == LoadSteps \/ ResetSteps \/ ManualEntrySteps

SpecManual == Init /\ [][NextManual]_vars

\* The property manager over the persistence shim
NextProperties == LoadSteps \/ PropertySteps

SpecProperties == Init /\ [][NextProperties]_vars

\* authService alone: the page shows the login form, nothing is loaded, and
\* the service is called in any order
InitSession ==
    /\ rawData = NoText
    /\ extracted = NoResult
    /\ lsProperties = <<>>
    /\ lsInvoices = <<>>
    /\ status = "IDLE"
    /\ properties = <<>>
    /\ selectedPropertyId = ""
    /\ fileData = JsNull
    /\ fileMimeType = ""
    /\ invoiceData = JsNull
    /\ validationErrors = <<>>
    /\ ksefInvoices = <<>>
    /\ processingKsefId = ""
    /\ ksefPropertySelections = [k \in KsefIds |-> ""]
    /\ isPropertyManagerOpen = FALSE
    /\ history = <<>>
    /\ lastUploadLink = ""
    /\ inflight = <<>>
    /\ now = 100
    /\ started = 0
    /\ lastEvent = NoEvent
    /\ lsUsers \in StoredUsers
    /\ lsCurrentUser = NoUser
    /\ lsSettings = NoSettings
    /\ currentUser = NoUser
    /\ isSettingsOpen = FALSE
    /\ activeTab = "general"
    /\ settingsForm = NoSettings
    /\ subUsers = <<>>
    /\ authEvent = NoAuthEvent
    /\ urlAction = NoAction
    /\ isAuthLoading = FALSE

NextSession ==
    \/ \E email \in LoginEmails : login(email)
    \/ \E i \in 1..Len(inflight), t \in ClockReadings : LoginResolved(i, t)
    \/ loginWithGoogle
    \/ \E i \in 1..Len(inflight), isLuck \in BOOLEAN : GoogleResolved(i, isLuck)
    \/ logout

SpecSession == InitSession /\ [][NextSession]_vars

\* authService with accounts being created: an administrator adds sub-users
\* under any email, the fixed administrator email and one that contains
\* "admin" among them, and the emails are used to log in
AccountEmails == {"admin@recost.ai", "superadmin@firma.pl", "jan@firma.pl"}

NextAccounts ==
    \/ \E email \in AccountEmails, t \in ClockReadings :
          createSubUser(email, "Nowy", t)
    \/ \E email \in LoginEmails : login(email)
    \/ \E i \in 1..Len(inflight), t \in ClockReadings : LoginResolved(i, t)

SpecAccounts == InitSession /\ [][NextAccounts]_vars

\* The settings modal in a session of an administrator or of a restricted
\* user
SessionUsers == {DEFAULT_ADMIN, GOOGLE_USER, ANNA}

InitSettings ==
    /\ rawData = NoText
    /\ extracted = NoResult
    /\ InitApp
    /\ lsUsers \in StoredUsers
    /\ lsCurrentUser \in SessionUsers
    /\ lsSettings \in {NoSettings, Settings("/Old/Data", "/Old/Scans")}
    /\ currentUser = getCurrentUser(lsCurrentUser)
    /\ isSettingsOpen = FALSE
    /\ activeTab = "general"
    /\ settingsForm = NoSettings
    /\ subUsers = <<>>
    /\ authEvent = NoAuthEvent
    /\ urlAction = NoAction
    /\ isAuthLoading = FALSE

SettingsSteps ==
    \/ openSettings
    \/ closeSettings
    \/ \E tab \in {"general", "users"} : setActiveTab(tab)
    \/ \E v \in FolderInputs : setSheetFolder(v)
    \/ \E v \in FolderInputs : setScansFolder(v)
    \/ handleSaveSettings
    \/ \E e \in NewUserInputs, t \in ClockReadings : handleAddUser(e[1], e[2], t)
    \/ \E k \in 1..Len(subUsers) : handleRemoveUser(k)

NextSettings == LoadSteps \/ SettingsSteps

SpecSettings == InitSettings /\ [][NextSettings]_vars

\* A flow that is abandoned while its extraction is in flight: the
\* application is loaded, the user has picked a file on the method selection
\* and processFile is waiting for the extraction client
FirstFile == [type |-> "image/png", content |-> "AAAA"]

InitAbandon ==
    /\ rawData = NoText
    /\ extracted = NoResult
    /\ lsProperties = getPropertiesStore(<<>>)
    /\ lsInvoices = <<>>
    /\ status = "ANALYZING"
    /\ properties = getPropertiesResult(<<>>)
    /\ selectedPropertyId = getPropertiesResult(<<>>)[1].id
    /\ fileData = DataUrl(FirstFile)
    /\ fileMimeType = FirstFile.type
    /\ invoiceData = JsNull
    /\ validationErrors = <<>>
    /\ ksefInvoices = PendingKsefInvoices
    /\ processingKsefId = ""
    /\ ksefPropertySelections = [k \in KsefIds |-> ""]
    /\ isPropertyManagerOpen = FALSE
    /\ history = <<>>
    /\ lastUploadLink = ""
    /\ inflight = << [kind |-> "extract", props |-> getPropertiesResult(<<>>),
                      file |-> DataUrl(FirstFile)] >>
    /\ now = 100
    /\ started = 0
    /\ lastEvent = NoEvent
    /\ InitLoggedIn

\* The files picked after the first one: other files, so that the
\* extractions in flight are told apart by the file they were started with
LaterFiles == Files \ {FirstFile}

AbandonSteps ==
    \/ AddCost
    \/ BackToDashboard
    \/ \E file \in LaterFiles : handleFileSelect(file)
    \/ \E i \in 1..Len(inflight), resp \in AppResponses : ExtractDone(i, resp)
    \/ handleSubmit
    \/ \E i \in 1..Len(inflight), ok \in BOOLEAN, r1 \in RandomPermille,
          r2 \in RandomPermille, t \in ClockReadings : UploadDone(i, ok, r1, r2, t)

NextAbandon == ResetSteps \/ AbandonSteps

SpecAbandon == InitAbandon /\ [][NextAbandon]_vars

\* The KSeF inbox as it is once the application has loaded and the inbox
\* has been opened: the three pending invoices shown, the first property
\* selected by default
InitInbox ==
    /\ rawData = NoText
    /\ extracted = NoResult
    /\ lsProperties = getPropertiesStore(<<>>)
    /\ lsInvoices = <<>>
    /\ status = "KSEF_INBOX"
    /\ properties = getPropertiesResult(<<>>)
    /\ selectedPropertyId = getPropertiesResult(<<>>)[1].id
    /\ fileData = JsNull
    /\ fileMimeType = ""
    /\ invoiceData = JsNull
    /\ validationErrors = <<>>
    /\ ksefInvoices = OpenedPending(PendingKsefInvoices)
    /\ processingKsefId = ""
    /\ ksefPropertySelections = [k \in KsefIds |-> ""]
    /\ isPropertyManagerOpen = FALSE
    /\ history = <<>>
    /\ lastUploadLink = ""
    /\ inflight = <<>>
    /\ now = 100
    /\ started = 0
    /\ lastEvent = NoEvent
    /\ InitLoggedIn

NextInbox == ResetSteps \/ KsefSteps

SpecInbox == InitInbox /\ [][NextInbox]_vars

\* Commits and the property they are tied to: the review flow with a file,
\* the inbox and the property manager together.  The collection stored by an
\* earlier visit may have its first property archived.
ArchivedFirst ==
    MapReplace(DefaultProperties, [DefaultProperties[1] EXCEPT !.isArchived = TRUE])

StoredCollections == {<<>>, ArchivedFirst}

InitCommit ==
    /\ rawData = NoText
    /\ extracted = NoResult
    /\ lsProperties \in StoredCollections
    /\ lsInvoices = <<>>
    /\ status = "IDLE"
    /\ properties = <<>>
    /\ selectedPropertyId = ""
    /\ fileData = JsNull
    /\ fileMimeType = ""
    /\ invoiceData = JsNull
    /\ validationErrors = <<>>
    /\ ksefInvoices = <<>>
    /\ processingKsefId = ""
    /\ ksefPropertySelections = [k \in KsefIds |-> ""]
    /\ isPropertyManagerOpen = FALSE
    /\ history = <<>>
    /\ lastUploadLink = ""
    /\ inflight = << [kind |-> "loadProps", sel |-> ""] >>
    /\ now = 100
    /\ started = 0
    /\ lastEvent = NoEvent
    /\ InitLoggedIn

\* Answers of the model that suggest a property: an active one, or the
\* archived one of the default collection
SuggestingResponses ==
    {JsonResponse([sellerName |-> JsStr("ACME"), invoiceNumber |-> JsStr("FV/1"),
                   date |-> JsStr(TODAY), netAmount |-> JsNum(100),
                   vatAmount |-> JsNum(23), grossAmount |-> JsNum(123),
                   currency |-> JsUndefined, suggestedPropertyId |-> JsStr(sp)]) :
        sp \in {"2", "3"}}

CommitSteps ==
    \/ AddCost
    \/ handleFileSelect(FirstFile)
    \/ \E i \in 1..Len(inflight), resp \in SuggestingResponses : ExtractDone(i, resp)
    \/ handleSubmit
    \/ \E i \in 1..Len(inflight), r1 \in RandomPermille, r2 \in RandomPermille,
          t \in ClockReadings : UploadDone(i, TRUE, r1, r2, t)
    \/ handleOpenKsef
    \/ \E i \in 1..Len(inflight) : OpenKsefDone(i)
    \/ CloseKsef
    \/ \E k \in 1..Len(ksefInvoices) : handleApproveKsef(k)
    \/ \E i \in 1..Len(inflight), r2 \in RandomPermille, t \in ClockReadings :
          ApproveDone(i, TRUE, r2, t)
    \/ openPropertyManager
    \/ closePropertyManager
    \/ \E k \in 1..Len(properties) : toggleArchive(k)
    \/ \E i \in 1..Len(inflight), t \in ClockReadings : SavePropDone(i, t)
    \/ \E i \in 1..Len(inflight) : ReloadPropsDone(i)

NextCommit == LoadSteps \/ CommitSteps

SpecCommit == InitCommit /\ [][NextCommit]_vars

\* The page from its load: the mount effect, the login form, the deep link,
\* logout, and one cost entered from a file or by hand
UrlActions == {NoAction, "new", "edit"}

StoredSessions == {NoUser, DEFAULT_ADMIN}

PageEmails == {"anna@firma.pl", "jan@firma.pl"}

PageResponses ==
    {NetworkError,
     JsonResponse([sellerName |-> JsStr("ACME"), invoiceNumber |-> JsStr("FV/1"),
                   date |-> JsStr(TODAY), netAmount |-> JsNum(100),
                   vatAmount |-> JsNum(23), grossAmount |-> JsNum(123),
                   currency |-> JsUndefined, suggestedPropertyId |-> JsUndefined])}

InitPage ==
    /\ rawData = NoText
    /\ extracted = NoResult
    /\ lsProperties = <<>>
    /\ lsInvoices = <<>>
    /\ status = "IDLE"
    /\ properties = <<>>
    /\ selectedPropertyId = ""
    /\ fileData = JsNull
    /\ fileMimeType = ""
    /\ invoiceData = JsNull
    /\ validationErrors = <<>>
    /\ ksefInvoices = <<>>
    /\ processingKsefId = ""
    /\ ksefPropertySelections = [k \in KsefIds |-> ""]
    /\ isPropertyManagerOpen = FALSE
    /\ history = <<>>
    /\ lastUploadLink = ""
    /\ inflight = <<>>
    /\ now = 100
    /\ started = 0
    /\ lastEvent = NoEvent
    /\ lsUsers = <<ANNA>>
    /\ lsCurrentUser \in StoredSessions
    /\ lsSettings = NoSettings
    /\ currentUser = NoUser
    /\ isSettingsOpen = FALSE
    /\ activeTab = "general"
    /\ settingsForm = NoSettings
    /\ subUsers = <<>>
    /\ authEvent = NoAuthEvent
    /\ urlAction \in UrlActions
    /\ isAuthLoading = TRUE

\* what the user can do: the login form, or the application once it shows
PageUserSteps ==
    \/ \E email \in PageEmails : handleEmailLogin(email)
    \/ handleLogout
    \/ MainShown /\ AddCost
    \/ MainShown /\ BackToDashboard
    \/ MainShown /\ handleFileSelect(FirstFile)
    \/ MainShown /\ handleManualEntry
    \/ MainShown /\ handleSubmit
    \/ MainShown /\ resetFlow
    \/ MainShown /\ handleOpenKsef
    \/ MainShown /\ CloseKsef

\* what happens without the user: the mount effect and the pending calls
PageCompletions ==
    \/ Mount
    \/ \E i \in 1..Len(inflight), t \in ClockReadings : EmailLoginDone(i, t)
    \/ \E i \in 1..Len(inflight) : LoadPropsDone(i)
    \/ \E i \in 1..Len(inflight) : LoadKsefDone(i)
    \/ \E i \in 1..Len(inflight) : ResetKsefDone(i)
    \/ \E i \in 1..Len(inflight) : OpenKsefDone(i)
    \/ \E i \in 1..Len(inflight), resp \in PageResponses : ExtractDone(i, resp)
    \/ \E i \in 1..Len(inflight), ok \in BOOLEAN, t \in ClockReadings :
          UploadDone(i, ok, 0, 0, t)

NextPage == PageUserSteps \/ PageCompletions

SpecPage == InitPage /\ [][NextPage]_vars

\* The same page where the event loop runs: a timer that expired and a call
\* that was answered have their callback run, and the mount effect runs
\* after the first render
SpecPageLive == InitPage /\ [][NextPage]_vars /\ WF_vars(PageCompletions)

\* The extraction client alone: the service has answered with rawData and
\* extractInvoiceData turns the answer into its result
InitExtract ==
    /\ rawData \in RawResponses
    /\ extracted = NoResult
    /\ InitApp
    /\ InitLoggedIn

ExtractCall ==
    /\ extracted = NoResult
    /\ extracted' = extractInvoiceData(rawData)
    /\ UNCHANGED rawData
    /\ UNCHANGED appVars
    /\ UNCHANGED authVars

NextExtract == ExtractCall

SpecExtract == InitExtract /\ [][NextExtract]_vars

-----------------------------------------------------------------------------
(* Properties of the extraction client *)

TextFields == {"sellerName", "invoiceNumber", "date"}
NumberFields == {"netAmount", "vatAmount", "grossAmount"}

AbsentOrNullString(v) == v = JsUndefined \/ v = JsStr("null")

\* C4: for every model response, a text field (sellerName, invoiceNumber,
\* date) that is absent or the literal string "null" is normalised to the
\* empty string, the currency in the same situation to "PLN", and a text
\* field holding any other non-empty string is returned unchanged.
C4_NullTextNormalized ==
    (rawData.kind = "json" /\ extracted # NoResult) =>
        /\ extracted.ok
        /\ \A f \in TextFields :
              /\ AbsentOrNullString(rawData.obj[f]) => extracted.data[f] = JsStr("")
              /\ (rawData.obj[f].type = "string" /\ rawData.obj[f].s \notin {"", "null"})
                    => extracted.data[f] = rawData.obj[f]
        /\ AbsentOrNullString(rawData.obj.currency)
              => extracted.data.currency = JsStr("PLN")
        /\ (rawData.obj.currency.type = "string"
            /\ rawData.obj.currency.s \notin {"", "null"})
              => extracted.data.currency = rawData.obj.currency

C4_Witness ==
    /\ rawData.kind = "json"
    /\ extracted # NoResult
    /\ rawData.obj.sellerName = JsStr("null")
    /\ rawData.obj.invoiceNumber = JsUndefined
    /\ rawData.obj.date = JsStr("2025-12-10")
    /\ rawData.obj.currency = JsStr("null")
    /\ extracted.data.sellerName = JsStr("")
    /\ extracted.data.invoiceNumber = JsStr("")
    /\ extracted.data.date = JsStr("2025-12-10")
    /\ extracted.data.currency = JsStr("PLN")

\* C5 as stated: for every model response, a numeric field (netAmount,
\* vatAmount, grossAmount) whose parsed value is not of numeric type is
\* normalised to zero, a value of numeric type is returned unchanged, and
\* every amount of the normalised result is a non-negative number.
C5_Original ==
    (rawData.kind = "json" /\ extracted # NoResult) =>
        \A f \in NumberFields :
           /\ rawData.obj[f].type # "number" => extracted.data[f] = JsNum(0)
           /\ rawData.obj[f].type = "number" => extracted.data[f] = rawData.obj[f]
           /\ extracted.data[f].type = "number" /\ extracted.data[f].n >= 0

\* C5 amended: a numeric field that is not of numeric type is normalised to
\* zero and a value of numeric type is returned unchanged, so every amount of
\* the normalised result is a number, and it is non-negative whenever the
\* parsed value was not a negative number.
C5_NumbersNormalized ==
    (rawData.kind = "json" /\ extracted # NoResult) =>
        \A f \in NumberFields :
           /\ rawData.obj[f].type # "number" => extracted.data[f] = JsNum(0)
           /\ rawData.obj[f].type = "number" => extracted.data[f] = rawData.obj[f]
           /\ extracted.data[f].type = "number"
           /\ ~(rawData.obj[f].type = "number" /\ rawData.obj[f].n < 0)
                 => extracted.data[f].n >= 0

\* the scenario of the specification: {sellerName:"ACME", netAmount:"abc",
\* vatAmount:23, grossAmount:123, currency:"null"}
C5_Witness ==
    /\ rawData = JsonResponse([sellerName |-> JsStr("ACME"),
                     invoiceNumber |-> JsUndefined, date |-> JsUndefined,
                     netAmount |-> JsStr("abc"), vatAmount |-> JsNum(23),
                     grossAmount |-> JsNum(123), currency |-> JsStr("null"),
                     suggestedPropertyId |-> JsUndefined])
    /\ extracted.ok
    /\ extracted.data.sellerName = JsStr("ACME")
    /\ extracted.data.netAmount = JsNum(0)
    /\ extracted.data.vatAmount = JsNum(23)
    /\ extracted.data.grossAmount = JsNum(123)
    /\ extracted.data.currency = JsStr("PLN")

-----------------------------------------------------------------------------
(* Properties of the KSeF inbox *)

\* C1 as stated: an approval of pending invoice X that succeeds removes
\* exactly X from the in-memory pending set and leaves every other pending
\* entry untouched; the status becomes SUCCESS when the pending set is left
\* empty and is left as it was when it is not.
C1_Original ==
    [][\A i \in 1..Len(inflight), r2 \in RandomPermille, t \in ClockReadings :
          ApproveDone(i, TRUE, r2, t) =>
             /\ ksefInvoices' = FilterOut(ksefInvoices, inflight[i].invoice.id)
             /\ ksefInvoices' = <<>> => status' = "SUCCESS"
             /\ ksefInvoices' # <<>> => status' = status]_vars

-----------------------------------------------------------------------------
(* Properties of the review form *)

SellerBlank(draft) ==
    draft.sellerName.type = "string" /\ draft.sellerName.s \in {"", " "}

Contains(seq, x) == \E k \in 1..Len(seq) : seq[k] = x

\* C2: handleSubmit on a draft whose seller name is empty or only white
\* space puts the seller-name message into the validation errors and does
\* not advance: the status stays REVIEW, no upload is started and nothing is
\* added to the history.
C2_EmptySellerBlocksSubmit ==
    [][(handleSubmit /\ SellerBlank(invoiceData)) =>
          /\ Contains(validationErrors', MSG_SELLER)
          /\ status = "REVIEW" /\ status' = "REVIEW"
          /\ UNCHANGED <<inflight, lsInvoices, history>>]_vars

C2_Witness ==
    /\ lastEvent.op = "handleSubmit"
    /\ ~lastEvent.uploadStarted
    /\ status = "REVIEW"
    /\ selectedPropertyId # ""
    /\ invoiceData # JsNull
    /\ invoiceData.sellerName = JsStr(" ")
    /\ validationErrors = <<MSG_SELLER>>

\* C3: handleSubmit while no property is selected produces a non-empty list
\* of validation errors and neither advances to UPLOADING nor persists a
\* record, whatever the seller name, the date and the gross amount are.
C3_NoPropertyBlocksSubmit ==
    [][(handleSubmit /\ selectedPropertyId = "") =>
          /\ Len(validationErrors') > 0
          /\ status' # "UPLOADING"
          /\ UNCHANGED <<status, inflight, lsInvoices, history>>]_vars

C3_Witness ==
    /\ lastEvent.op = "handleSubmit"
    /\ selectedPropertyId = ""
    /\ invoiceData # JsNull
    /\ invoiceData.sellerName = JsStr("ACME")
    /\ invoiceData.date = JsStr(TODAY)
    /\ invoiceData.grossAmount = JsNum(123)
    /\ validationErrors = <<MSG_PROPERTY>>
    /\ status = "REVIEW"
    /\ lsInvoices = <<>>

-----------------------------------------------------------------------------
(* Properties of the persistence shim *)

\* Array.prototype.find: the first entry with the identifier
FirstWithId(props, id) ==
    props[CHOOSE k \in 1..Len(props) :
             props[k].id = id /\ \A j \in 1..(k - 1) : props[j].id # id]

\* C6: saveProperty with a property whose identifier is not in storage makes
\* the stored collection exactly one element longer, keeps every property
\* stored before, and the new entry carries a non-empty driveFolderId.
C6_SaveNewAppends ==
    [][\A i \in 1..Len(inflight), t \in ClockReadings :
          (SavePropDone(i, t) /\ ~FindProperty(lsProperties, inflight[i].property.id)) =>
             /\ Len(lsProperties') = Len(lsProperties) + 1
             /\ SubSeq(lsProperties', 1, Len(lsProperties)) = lsProperties
             /\ lsProperties'[Len(lsProperties')].id = inflight[i].property.id
             /\ lsProperties'[Len(lsProperties')].address = inflight[i].property.address
             /\ lsProperties'[Len(lsProperties')].driveFolderId # ""]_vars

C6_Witness ==
    /\ lastEvent.op = "savePropDone"
    /\ ~FindProperty(lastEvent.storeBefore, lastEvent.property.id)
    /\ Len(lastEvent.storeBefore) = 3
    /\ Len(lsProperties) = 4
    /\ lsProperties[4].id = lastEvent.property.id
    /\ lsProperties[4].driveFolderId # ""

\* C7: once saveProperty(p) has resolved, getProperties returns a collection
\* in which p's identifier is found with p's address and p's archived flag.
C7_SaveThenListRoundTrip ==
    [][\A i \in 1..Len(inflight), t \in ClockReadings :
          SavePropDone(i, t) =>
             LET p == inflight[i].property
                 listed == getPropertiesResult(lsProperties') IN
             /\ FindProperty(listed, p.id)
             /\ FirstWithId(listed, p.id).address = p.address
             /\ FirstWithId(listed, p.id).isArchived = p.isArchived]_vars

C7_Witness ==
    /\ lastEvent.op = "reloadPropsDone"
    /\ lastEvent.updated.id = "1"
    /\ lastEvent.updated.isArchived
    /\ FindProperty(properties, "1")
    /\ FirstWithId(properties, "1").isArchived
    /\ FirstWithId(properties, "1").address = lastEvent.updated.address

\* The record a successful uploadInvoiceToCloud(payload) leaves at the head
\* of the history storage, the earlier records following it unchanged
Prepended(payload) ==
    /\ Len(lsInvoices') = Len(lsInvoices) + 1
    /\ Tail(lsInvoices') = lsInvoices
    /\ Head(getRecentInvoices(lsInvoices')).propertyId = payload.propertyId
    /\ Head(getRecentInvoices(lsInvoices')).sellerName = payload.sellerName
    /\ Head(getRecentInvoices(lsInvoices')).grossAmount = payload.grossAmount
    /\ Head(lsInvoices').sheetRow \in 2..101

\* C8 as stated: every successful uploadInvoiceToCloud call prepends exactly
\* one new record to the history storage and leaves the earlier records
\* unchanged and in order, so the history lists the newest record first; it
\* synthesizes a link if and only if file bytes are present, and it always
\* returns a row number.
C8_Original ==
    [][/\ \A i \in 1..Len(inflight), r1 \in RandomPermille,
             r2 \in RandomPermille, t \in ClockReadings :
             UploadDone(i, TRUE, r1, r2, t) =>
                /\ Prepended(inflight[i].payload)
                /\ Head(lsInvoices').driveLink # "" <=> inflight[i].payload.fileData # ""
       /\ \A i \in 1..Len(inflight), r2 \in RandomPermille, t \in ClockReadings :
             ApproveDone(i, TRUE, r2, t) =>
                /\ Prepended(inflight[i].payload)
                /\ Head(lsInvoices').driveLink # "" <=> inflight[i].payload.fileData # ""]_vars

\* C8 amended: as stated, except that the link is synthesized if and only if
\* file bytes and a MIME type are both present.
C8_UploadPrepends ==
    [][/\ \A i \in 1..Len(inflight), r1 \in RandomPermille,
             r2 \in RandomPermille, t \in ClockReadings :
             UploadDone(i, TRUE, r1, r2, t) =>
                /\ Prepended(inflight[i].payload)
                /\ Head(lsInvoices').driveLink # "" <=>
                      (inflight[i].payload.fileData # ""
                       /\ inflight[i].payload.mimeType # "")
       /\ \A i \in 1..Len(inflight), r2 \in RandomPermille, t \in ClockReadings :
             ApproveDone(i, TRUE, r2, t) =>
                /\ Prepended(inflight[i].payload)
                /\ Head(lsInvoices').driveLink # "" <=>
                      (inflight[i].payload.fileData # ""
                       /\ inflight[i].payload.mimeType # "")]_vars

\* a second upload, with a file, in front of an earlier one without
C8_Witness ==
    /\ lastEvent.op = "uploadDone"
    /\ lastEvent.ok
    /\ lastEvent.payload.fileData # ""
    /\ lastEvent.payload.mimeType # ""
    /\ Len(lsInvoices) = 2
    /\ lsInvoices[1].driveLink # ""
    /\ lsInvoices[1].sellerName = lastEvent.payload.sellerName
    /\ lsInvoices[2] = EarlierRecord
    /\ lastEvent.result.sheetRow = lsInvoices[1].sheetRow

\* C9: a submission that passes validation takes the status from REVIEW to
\* UPLOADING.  When the upload then succeeds the status becomes SUCCESS, the
\* link it returned (or none) is recorded and the in-memory history is the
\* stored history; when it fails the status becomes REVIEW and the handler
\* leaves the draft, the file and the selection as they are.  While the
\* status is UPLOADING the form is not shown: only resetFlow and the
\* completion of an extraction change the draft.
C9_SubmitUploadOutcome ==
    [][/\ (handleSubmit /\ Validate(selectedPropertyId, invoiceData) = <<>>) =>
             status = "REVIEW" /\ status' = "UPLOADING"
       /\ \A i \in 1..Len(inflight), r1 \in RandomPermille,
             r2 \in RandomPermille, t \in ClockReadings :
             /\ UploadDone(i, TRUE, r1, r2, t) =>
                   /\ status' = "SUCCESS"
                   /\ lastUploadLink' = Head(lsInvoices').driveLink
                   /\ history' = lsInvoices'
                   /\ Len(history') = Len(lsInvoices) + 1
             /\ UploadDone(i, FALSE, r1, r2, t) =>
                   /\ status' = "REVIEW"
                   /\ UNCHANGED <<invoiceData, fileData, fileMimeType,
                                  selectedPropertyId, lsInvoices, history>>
       /\ (status = "UPLOADING" /\ invoiceData' # invoiceData) =>
             \/ resetFlow
             \/ \E i \in 1..Len(inflight), resp \in AppResponses : ExtractDone(i, resp)]_vars

C9_Witness ==
    /\ lastEvent.op = "uploadDone"
    /\ lastEvent.ok
    /\ status = "SUCCESS"
    /\ lastUploadLink # ""
    /\ lastUploadLink = lastEvent.result.driveLink
    /\ history = lsInvoices
    /\ Len(history) >= 1
    /\ invoiceData # JsNull

\* C10: when the extraction started by processFile succeeds, the extracted
\* record becomes the draft and the status becomes REVIEW; when the
\* suggested property identifier is that of a property in the list the
\* handler holds (the list it sent to the model), that property becomes the
\* selected one, otherwise the selection is unchanged.
C10_ExtractionToReview ==
    [][\A i \in 1..Len(inflight), resp \in AppResponses :
          (ExtractDone(i, resp) /\ resp.kind = "json") =>
             /\ invoiceData' = extractInvoiceData(resp).data
             /\ invoiceData'.sellerName = resp.obj.sellerName
             /\ status' = "REVIEW"
             /\ selectedPropertyId' =
                   IF /\ resp.obj.suggestedPropertyId.type = "string"
                      /\ resp.obj.suggestedPropertyId.s
                            \in PropertyIds(inflight[i].props)
                   THEN resp.obj.suggestedPropertyId.s
                   ELSE selectedPropertyId]_vars

C10_Witness ==
    /\ lastEvent.op = "extractDone"
    /\ lastEvent.ok
    /\ lastEvent.data.suggestedPropertyId = JsStr("2")
    /\ lastEvent.selBefore = "1"
    /\ selectedPropertyId = "2"
    /\ status = "REVIEW"
    /\ invoiceData = lastEvent.data


-----------------------------------------------------------------------------
(* Properties of a failed extraction *)

\* C11: when the extraction fails (no text in the model response, text that
\* does not parse, or a transport error) the caller gets the one generic
\* error, the status becomes SELECT_METHOD, not REVIEW, and no draft is set.
C11_FailedExtraction ==
    [][\A i \in 1..Len(inflight), resp \in AppResponses :
          (ExtractDone(i, resp) /\ resp.kind \in {"empty", "badjson", "network"}) =>
             /\ ~extractInvoiceData(resp).ok
             /\ lastEvent'.error = GENERIC_EXTRACTION_ERROR
             /\ status' = "SELECT_METHOD"
             /\ UNCHANGED <<invoiceData, selectedPropertyId>>]_vars

C11_Witness ==
    /\ lastEvent.op = "extractDone"
    /\ ~lastEvent.ok
    /\ lastEvent.error = GENERIC_EXTRACTION_ERROR
    /\ status = "SELECT_METHOD"
    /\ invoiceData = JsNull
    /\ fileData # JsNull

-----------------------------------------------------------------------------
(* Properties of the ways back to the dashboard *)

\* What resetFlow clears
FlowCleared ==
    /\ status' = "IDLE"
    /\ invoiceData' = JsNull
    /\ fileData' = JsNull
    /\ fileMimeType' = ""
    /\ validationErrors' = <<>>
    /\ lastUploadLink' = ""

RefreshStarted ==
    /\ Len(inflight') = Len(inflight) + 1
    /\ inflight'[Len(inflight')].kind = "resetKsef"
    /\ SubSeq(inflight', 1, Len(inflight)) = inflight

\* C12 as stated: every explicit reset or cancel (resetFlow, the inbox close
\* button) moves the flow to IDLE, clears the draft, the file, the validation
\* errors and the last upload link, and starts a refresh of the pending set;
\* when the refresh completes the pending set is the full fetched set.
C12_Original ==
    [][/\ (resetFlow \/ CloseKsef) => (FlowCleared /\ RefreshStarted)
       /\ \A i \in 1..Len(inflight) :
             ResetKsefDone(i) => ksefInvoices' = PendingKsefInvoices]_vars

\* C12 amended: resetFlow does all of that, from whatever status it is
\* called in, and keeps the selected property; the inbox close button only
\* sets the status to IDLE: it clears nothing and starts no refresh, so the
\* pending set stays as the approvals left it.
C12_ResetToIdle ==
    [][/\ resetFlow =>
             /\ FlowCleared
             /\ RefreshStarted
             /\ UNCHANGED <<selectedPropertyId, ksefInvoices, lsInvoices>>
       /\ \A i \in 1..Len(inflight) :
             ResetKsefDone(i) =>
                /\ ksefInvoices' = PendingKsefInvoices
                /\ KsefIds = {ksefInvoices'[k].id : k \in 1..Len(ksefInvoices')}
                /\ Len(ksefInvoices') = 3
       /\ CloseKsef =>
             /\ status' = "IDLE"
             /\ UNCHANGED <<invoiceData, fileData, fileMimeType, validationErrors,
                            lastUploadLink, ksefInvoices, inflight>>]_vars

\* an invoice approved earlier is pending again once the refresh started by
\* a reset has completed
C12_Witness ==
    /\ lastEvent.op = "resetKsefDone"
    /\ status = "IDLE"
    /\ invoiceData = JsNull
    /\ validationErrors = <<>>
    /\ ksefInvoices = PendingKsefInvoices
    /\ \E k \in 1..Len(lsInvoices) :
          lsInvoices[k].sellerName = PendingKsefInvoices[1].sellerName

-----------------------------------------------------------------------------
(* Properties of opening the KSeF inbox *)

IdsOf(invoices) == [k \in 1..Len(invoices) |-> invoices[k].id]

\* C13: the inbox is opened from IDLE; the pending list is fetched again and
\* then the inbox is shown with the same three entries every time, entries
\* approved earlier included; the fetch writes nothing to storage.
C13_OpenInboxRefetches ==
    [][/\ handleOpenKsef =>
             /\ status = "IDLE"
             /\ status' = "ANALYZING"
             /\ UNCHANGED <<ksefInvoices, lsInvoices, lsProperties>>
       /\ \A i \in 1..Len(inflight) :
             OpenKsefDone(i) =>
                /\ IdsOf(ksefInvoices') = <<"ksef_1", "ksef_2", "ksef_3">>
                /\ status' = "KSEF_INBOX"
                /\ UNCHANGED <<lsInvoices, lsProperties>>]_vars

\* ksef_1 was approved and is in the history, two entries were left in
\* memory, and the inbox opened again shows three
C13_Witness ==
    /\ lastEvent.op = "openKsefDone"
    /\ lastEvent.shownBefore = 2
    /\ status = "KSEF_INBOX"
    /\ IdsOf(ksefInvoices) = <<"ksef_1", "ksef_2", "ksef_3">>
    /\ \E k \in 1..Len(lsInvoices) :
          lsInvoices[k].sellerName = PendingKsefInvoices[1].sellerName

-----------------------------------------------------------------------------
(* Properties of manual entry *)

\* C14: manual entry is chosen on the method selection and leads straight to
\* REVIEW, starting no analysis, with a draft holding today's date, zero
\* net, VAT and gross amounts, the currency PLN, and no file.  Such a draft
\* whose seller has been filled, with a property selected, passes validation:
\* the upload starts with no file bytes, and when it succeeds the record it
\* commits has no link.
C14_ManualEntry ==
    [][/\ handleManualEntry =>
             /\ status = "SELECT_METHOD"
             /\ status' = "REVIEW"
             /\ invoiceData'.date = JsStr(TODAY)
             /\ invoiceData'.netAmount = JsNum(0)
             /\ invoiceData'.vatAmount = JsNum(0)
             /\ invoiceData'.grossAmount = JsNum(0)
             /\ invoiceData'.currency = JsStr("PLN")
             /\ invoiceData'.sellerName = JsStr("")
             /\ fileData' = JsNull
             /\ fileMimeType' = ""
             /\ UNCHANGED inflight
       /\ (/\ handleSubmit
           /\ fileData = JsNull
           /\ selectedPropertyId # ""
           /\ invoiceData.sellerName = JsStr("ACME")
           /\ invoiceData.date = JsStr(TODAY)
           /\ invoiceData.grossAmount = JsNum(0)) =>
             /\ status' = "UPLOADING"
             /\ validationErrors' = <<>>
             /\ Len(inflight') = Len(inflight) + 1
             /\ inflight'[Len(inflight')].kind = "upload"
             /\ inflight'[Len(inflight')].payload.fileData = ""
       /\ \A i \in 1..Len(inflight), r1 \in RandomPermille,
             r2 \in RandomPermille, t \in ClockReadings :
             (UploadDone(i, TRUE, r1, r2, t) /\ inflight[i].payload.fileData = "") =>
                /\ Len(lsInvoices') = Len(lsInvoices) + 1
                /\ Head(lsInvoices').driveLink = ""
                /\ Head(lsInvoices').sellerName = inflight[i].payload.sellerName
                /\ lastUploadLink' = ""
                /\ status' = "SUCCESS"]_vars

C14_Witness ==
    /\ lastEvent.op = "uploadDone"
    /\ lastEvent.ok
    /\ lastEvent.payload.fileData = ""
    /\ lastEvent.payload.sellerName = JsStr("ACME")
    /\ lastEvent.payload.date = JsStr(TODAY)
    /\ lastEvent.payload.grossAmount = JsNum(0)
    /\ status = "SUCCESS"
    /\ fileData = JsNull
    /\ lsInvoices[1].sellerName = JsStr("ACME")
    /\ lsInvoices[1].driveLink = ""
    /\ lastUploadLink = ""

-----------------------------------------------------------------------------
(* Properties of authService *)

StoredWithEmail(users, email) == \E k \in 1..Len(users) : users[k].email = email

C16_SingleSessionRecord ==
    [][/\ \A i \in 1..Len(inflight), t \in ClockReadings :
             LoginResolved(i, t) =>
                /\ authEvent'.ok => getCurrentUser(lsCurrentUser') = authEvent'.user
                /\ ~authEvent'.ok => lsCurrentUser' = lsCurrentUser
       /\ \A i \in 1..Len(inflight), isLuck \in BOOLEAN :
             GoogleResolved(i, isLuck) =>
                /\ getCurrentUser(lsCurrentUser') = authEvent'.user
                /\ authEvent'.user \in {DEFAULT_ADMIN, GOOGLE_USER}
       /\ logout => getCurrentUser(lsCurrentUser') = NoUser
       /\ lsCurrentUser' # lsCurrentUser =>
             \/ logout
             \/ \E i \in 1..Len(inflight), t \in ClockReadings : LoginResolved(i, t)
             \/ \E i \in 1..Len(inflight), isLuck \in BOOLEAN : GoogleResolved(i, isLuck)]_vars

\* a failed login after a successful one: the session is still the first
\* user's
C16_Witness ==
    /\ authEvent.op = "login"
    /\ ~authEvent.ok
    /\ authEvent.email = "jan@firma.pl"
    /\ getCurrentUser(lsCurrentUser) = GOOGLE_USER

-----------------------------------------------------------------------------
(* Properties of the settings modal *)

\* C17: in a session of a restricted user (role USER) no step changes the
\* stored folder settings or the stored sub-users: the save handler, the
\* add-user form and the remove button act, and the storage changes, only
\* when the current user is an administrator.
C17_RoleGatesWrites ==
    [][/\ (lsSettings' # lsSettings \/ lsUsers' # lsUsers) =>
             currentUser.role = "ADMIN"
       /\ (\/ handleSaveSettings
           \/ \E e \in NewUserInputs, t \in ClockReadings :
                 handleAddUser(e[1], e[2], t)
           \/ \E k \in 1..Len(subUsers) : handleRemoveUser(k)) =>
             currentUser.role = "ADMIN"]_vars

\* a restricted user has the modal open while sub-users and settings are
\* stored: the users were not loaded into the modal and the tab is the
\* general one
C17_Witness ==
    /\ currentUser.role = "USER"
    /\ isSettingsOpen
    /\ activeTab = "general"
    /\ lsUsers = <<ANNA>>
    /\ subUsers = <<>>
    /\ lsSettings = Settings("/Old/Data", "/Old/Scans")
    /\ settingsForm = lsSettings

-----------------------------------------------------------------------------
(* Properties of the validation on submit *)

RuleOrder == <<MSG_PROPERTY, MSG_SELLER, MSG_DATE, MSG_GROSS>>

\* the list holds exactly the messages of the violated rules, in rule order
ListsViolations(errs, noProperty, noSeller, noDate, noGross) ==
    /\ Contains(errs, MSG_PROPERTY) <=> noProperty
    /\ Contains(errs, MSG_SELLER) <=> noSeller
    /\ Contains(errs, MSG_DATE) <=> noDate
    /\ Contains(errs, MSG_GROSS) <=> noGross
    /\ \A k \in 1..Len(errs) : \E r \in 1..4 : errs[k] = RuleOrder[r]
    /\ \A k, l \in 1..Len(errs) :
          k < l => \E r, q \in 1..4 :
                      r < q /\ errs[k] = RuleOrder[r] /\ errs[l] = RuleOrder[q]

\* Drafts and selections handed to the validation, a gross amount that is
\* null or undefined among them
ValidationDrafts ==
    [sellerName : {JsUndefined, JsStr(""), JsStr(" "), JsStr("ACME")},
     invoiceNumber : {JsStr("")},
     date : {JsStr(""), JsStr(TODAY)},
     netAmount : {JsNum(0)}, vatAmount : {JsNum(0)},
     grossAmount : {JsUndefined, JsNull, JsNum(0), JsNum(123)},
     currency : {JsStr("PLN")},
     suggestedPropertyId : {JsUndefined}]

\* C18: the validation of handleSubmit tests, in this order, that a property
\* is selected, that the seller is not empty after trimming, that a date is
\* present and that the gross amount is neither null nor undefined (0 is
\* accepted); every violated rule adds its message to the one list, in that
\* order; the upload starts if and only if the list is empty.
C18_ValidationOrder ==
    [][handleSubmit =>
          /\ \A sel \in {"", "1"}, draft \in ValidationDrafts :
                ListsViolations(Validate(sel, draft),
                                sel = "",
                                draft.sellerName \in {JsUndefined, JsStr(""), JsStr(" ")},
                                draft.date = JsStr(""),
                                draft.grossAmount \in {JsUndefined, JsNull})
          /\ LET started_ == /\ status' = "UPLOADING"
                             /\ Len(inflight') = Len(inflight) + 1
                             /\ inflight'[Len(inflight')].kind = "upload"
                 errs == validationErrors' IN
             /\ ListsViolations(errs,
                                selectedPropertyId = "",
                                invoiceData.sellerName \in {JsStr(""), JsStr(" ")},
                                invoiceData.date = JsStr(""),
                                invoiceData.grossAmount \in {JsUndefined, JsNull})
             /\ started_ <=> errs = <<>>
             /\ ~started_ => UNCHANGED <<status, inflight, lsInvoices>>
             /\ invoiceData.grossAmount = JsNum(0) => ~Contains(errs, MSG_GROSS)]_vars

\* three rules violated at once: their messages in rule order, no upload
C18_Witness ==
    /\ lastEvent.op = "handleSubmit"
    /\ ~lastEvent.uploadStarted
    /\ selectedPropertyId = ""
    /\ invoiceData # JsNull
    /\ invoiceData.sellerName = JsStr(" ")
    /\ invoiceData.date = JsStr("")
    /\ invoiceData.grossAmount = JsNum(0)
    /\ validationErrors = <<MSG_PROPERTY, MSG_SELLER, MSG_DATE>>
    /\ status = "REVIEW"

-----------------------------------------------------------------------------
(* Properties of the stored property collection *)

UniqueIds(props) ==
    \A k, l \in 1..Len(props) : k # l => props[k].id # props[l].id

\* C19: in every reachable state the identifiers in the stored property
\* collection, and in the collection getProperties returns from it, are
\* unique, whatever saves of new and of existing identifiers were started
\* and in whatever order they completed.
C19_UniquePropertyIds ==
    /\ UniqueIds(lsProperties)
    /\ UniqueIds(getPropertiesResult(lsProperties))

\* a property was added, and then a save of an identifier already stored
\* completed
C19_Witness ==
    /\ lastEvent.op = "savePropDone"
    /\ FindProperty(lastEvent.storeBefore, lastEvent.property.id)
    /\ Len(lastEvent.storeBefore) = 4
    /\ Len(lsProperties) = 4
    /\ UniqueIds(lsProperties)

\* C20: saveProperty of an identifier that is stored replaces that entry in
\* place: the collection keeps its length and every other entry.  Whether it
\* replaced or appended, the value it resolves with is the property as it was
\* submitted: for a new property that is without the folder reference the
\* stored entry was given.
C20_SaveReplacesAndReturnsSubmitted ==
    [][\A i \in 1..Len(inflight), t \in ClockReadings :
          SavePropDone(i, t) =>
             LET p == inflight[i].property
                 before == getPropertiesResult(lsProperties)
                 returned == inflight'[Len(inflight')].updated IN
             /\ FindProperty(before, p.id) =>
                   /\ Len(lsProperties') = Len(before)
                   /\ \A k \in 1..Len(before) :
                         lsProperties'[k] = IF before[k].id = p.id THEN p
                                            ELSE before[k]
             /\ inflight'[Len(inflight')].kind = "reloadProps"
             /\ returned = p
             /\ ~FindProperty(before, p.id) =>
                   /\ returned.driveFolderId = ""
                   /\ FirstWithId(lsProperties', p.id).driveFolderId # ""]_vars

\* an archive toggle of a stored property has been saved in place
C20_Witness ==
    /\ lastEvent.op = "savePropDone"
    /\ FindProperty(lastEvent.listedBefore, lastEvent.property.id)
    /\ FirstWithId(lastEvent.listedBefore, lastEvent.property.id).isArchived
          # lastEvent.property.isArchived
    /\ Len(lsProperties) = Len(lastEvent.listedBefore)
    /\ FirstWithId(lsProperties, lastEvent.property.id) = lastEvent.property
    /\ Len(inflight) > 0
    /\ inflight[Len(inflight)].kind = "reloadProps"
    /\ inflight[Len(inflight)].updated = lastEvent.property

-----------------------------------------------------------------------------
(* Properties of the order of the operations of a flow *)

ExtractionPending(url) ==
    \E j \in 1..Len(inflight) :
        inflight[j].kind = "extract" /\ inflight[j].file = url

RecordIds(ls) == {ls[k].id : k \in 1..Len(ls)}

\* C22 as stated: an upload of a draft starts only from REVIEW with a draft
\* present, and when the flow has a file, only after the extraction of that
\* file has completed; every upload that succeeds adds one history entry of
\* its own, with an identifier no earlier entry has.
C22_Original ==
    [][/\ (handleSubmit /\ status' = "UPLOADING") =>
             /\ status = "REVIEW"
             /\ invoiceData # JsNull
             /\ fileData # JsNull => ~ExtractionPending(fileData)
       /\ \A i \in 1..Len(inflight), r1 \in RandomPermille,
             r2 \in RandomPermille, t \in ClockReadings :
             UploadDone(i, TRUE, r1, r2, t) =>
                /\ Len(lsInvoices') = Len(lsInvoices) + 1
                /\ Head(lsInvoices').id \notin RecordIds(lsInvoices)]_vars

-----------------------------------------------------------------------------
(* Properties of overlapping approvals *)

PendingIds(invoices) == {invoices[k].id : k \in 1..Len(invoices)}

\* a fetch of the pending list has resolved: on load, on opening the inbox,
\* or after resetFlow
Refetched ==
    \E i \in 1..Len(inflight) :
        LoadKsefDone(i) \/ OpenKsefDone(i) \/ ResetKsefDone(i)

\* C24 as stated: an approval that succeeds leaves its invoice out of the
\* pending set in memory, and an invoice that is not in the pending set comes
\* back into it only when the pending list is fetched again, also when
\* approvals of different invoices overlap.
C24_Original ==
    [][/\ \A i \in 1..Len(inflight), r2 \in RandomPermille, t \in ClockReadings :
             ApproveDone(i, TRUE, r2, t) =>
                inflight[i].invoice.id \notin PendingIds(ksefInvoices')
       /\ (\E id \in KsefIds : /\ id \notin PendingIds(ksefInvoices)
                               /\ id \in PendingIds(ksefInvoices'))
             => Refetched]_vars

ApprovalPending(id) ==
    \E j \in 1..Len(inflight) :
        inflight[j].kind = "approve" /\ inflight[j].invoice.id = id

\* C25 as stated: while an approval of a pending invoice is in flight no
\* second approval of that invoice starts, whatever approvals of other
\* invoices start or finish in the meantime, so that an invoice is committed
\* to the history at most once between two fetches of the pending list.
C25_Original ==
    [][\A k \in 1..Len(ksefInvoices) :
          (handleApproveKsef(k) /\ Len(inflight') > Len(inflight)) =>
             ~ApprovalPending(ksefInvoices[k].id)]_vars

-----------------------------------------------------------------------------
(* Properties of completions that arrive after a reset *)

\* C26 as stated: while the status is IDLE, as resetFlow leaves it, it
\* changes only when the user presses "add cost" or opens the inbox, and the
\* cleared draft stays cleared: no completion of an extraction, an upload, an
\* inbox fetch or an approval moves the status or sets the draft.
C26_Original ==
    [][status = "IDLE" =>
          /\ status' # "IDLE" => (AddCost \/ handleOpenKsef)
          /\ invoiceData = JsNull => invoiceData' = JsNull]_vars

-----------------------------------------------------------------------------
(* Properties of overlapping saves *)

\* C27: no saved property is lost.  saveProperty reads the stored collection
\* when its getProperties timer fires and writes before any other task runs,
\* so whatever saves are in flight together, a save that resolves leaves
\* every stored property of another identifier as it was and the saved one
\* stored with the address and the archived flag it was saved with; nothing
\* but a save changes what is stored.
C27_NoSavedPropertyLost ==
    [][/\ \A i \in 1..Len(inflight), t \in ClockReadings :
             SavePropDone(i, t) =>
                LET p == inflight[i].property
                    before == getPropertiesResult(lsProperties) IN
                /\ \A k \in 1..Len(before) :
                      before[k].id # p.id =>
                         /\ k <= Len(lsProperties')
                         /\ lsProperties'[k] = before[k]
                /\ FindProperty(lsProperties', p.id)
                /\ FirstWithId(lsProperties', p.id).address = p.address
                /\ FirstWithId(lsProperties', p.id).isArchived = p.isArchived
       /\ lsProperties' # lsProperties =>
             \/ \E i \in 1..Len(inflight), t \in ClockReadings : SavePropDone(i, t)
             \/ lsProperties = <<>> /\ lsProperties' = DefaultProperties]_vars

\* two saves of different properties were in flight together; both have
\* resolved and both are stored as saved
C27_Witness ==
    /\ Len(inflight) = 2
    /\ inflight[1].kind = "reloadProps"
    /\ inflight[2].kind = "reloadProps"
    /\ inflight[1].updated.id = "1"
    /\ inflight[1].updated.isArchived
    /\ inflight[2].updated.id \notin PropertyIds(DefaultProperties)
    /\ FirstWithId(lsProperties, "1").isArchived
    /\ FindProperty(lsProperties, inflight[2].updated.id)
    /\ FirstWithId(lsProperties, inflight[2].updated.id).address
          = inflight[2].updated.address
    /\ Len(lsProperties) = 4

-----------------------------------------------------------------------------
(* Properties of the property a commit is tied to *)

\* C28 as stated: every record committed by the review flow or by an inbox
\* approval names a property that is in the stored collection and is not
\* archived when the record is committed.
C28_Original ==
    [][/\ \A i \in 1..Len(inflight), r1 \in RandomPermille,
             r2 \in RandomPermille, t \in ClockReadings :
             UploadDone(i, TRUE, r1, r2, t) =>
                inflight[i].payload.propertyId
                   \in ActiveIds(getPropertiesResult(lsProperties))
       /\ \A i \in 1..Len(inflight), r2 \in RandomPermille, t \in ClockReadings :
             ApproveDone(i, TRUE, r2, t) =>
                inflight[i].payload.propertyId
                   \in ActiveIds(getPropertiesResult(lsProperties))]_vars

-----------------------------------------------------------------------------
(* Properties of sub-user accounts *)

CreatedRestricted ==
    \A email \in AccountEmails, t \in ClockReadings :
        createSubUser(email, "Nowy", t) =>
           /\ Len(lsUsers') = Len(lsUsers) + 1
           /\ lsUsers'[Len(lsUsers')].email = email
           /\ lsUsers'[Len(lsUsers')].role = "USER"
           /\ SubSeq(lsUsers', 1, Len(lsUsers)) = lsUsers

\* C30 as stated: createSubUser always stores the account with the role
\* USER, and a login with the email of a stored sub-user resolves to that
\* stored record, with the role USER, whatever the email is.
C30_Original ==
    [][/\ CreatedRestricted
       /\ \A i \in 1..Len(inflight), t \in ClockReadings :
             (LoginResolved(i, t) /\ StoredWithEmail(lsUsers, inflight[i].email)) =>
                /\ authEvent'.ok
                /\ \E k \in 1..Len(lsUsers) : authEvent'.user = lsUsers[k]
                /\ authEvent'.user.role = "USER"]_vars

\* C30 amended: createSubUser always stores the account with the role USER
\* and every stored account has that role; a login with the email of a
\* stored sub-user resolves to the first stored record of that email, with
\* the role USER, also when the email contains "admin", unless the email is
\* the fixed administrator email: then the login resolves to the default
\* administrator, not to the stored sub-user.
C30_SubUsersRestricted ==
    [][/\ CreatedRestricted
       /\ \A k \in 1..Len(lsUsers') : lsUsers'[k].role = "USER"
       /\ \A i \in 1..Len(inflight), t \in ClockReadings :
             LoginResolved(i, t) =>
                LET email == inflight[i].email IN
                /\ (StoredWithEmail(lsUsers, email) /\ email # "admin@recost.ai") =>
                      /\ authEvent'.ok
                      /\ \E k \in 1..Len(lsUsers) :
                            /\ authEvent'.user = lsUsers[k]
                            /\ \A j \in 1..(k - 1) : lsUsers[j].email # email
                      /\ authEvent'.user.email = email
                      /\ authEvent'.user.role = "USER"
                /\ email = "admin@recost.ai" =>
                      /\ authEvent'.ok
                      /\ authEvent'.user = DEFAULT_ADMIN
                      /\ authEvent'.user.role = "ADMIN"]_vars

\* a sub-user created under an email that contains "admin" has logged in and
\* got their own restricted account
C30_Witness ==
    /\ authEvent.op = "login"
    /\ authEvent.email = "superadmin@firma.pl"
    /\ authEvent.ok
    /\ authEvent.user.role = "USER"
    /\ authEvent.user.name = "Nowy"
    /\ \E k \in 1..Len(lsUsers) : lsUsers[k] = authEvent.user
    /\ lsCurrentUser = authEvent.user

\* C23: the deep link. The mount effect with a stored session, and a login
\* that resolved, set the status to SELECT_METHOD when the action parameter
\* the page was loaded with is "new"; with the parameter absent or holding
\* any other value they leave the status as it is, which at the load is
\* IDLE; the mount effect without a stored session leaves it IDLE too, and
\* the parameter itself never changes
C23_DeepLink ==
    [][/\ Mount =>
             /\ status = "IDLE"
             /\ status' = IF lsCurrentUser # NoUser /\ urlAction = "new"
                          THEN "SELECT_METHOD" ELSE "IDLE"
       /\ \A i \in 1..Len(inflight), t \in ClockReadings :
             EmailLoginDone(i, t) =>
                status' = IF currentUser' # NoUser /\ urlAction = "new"
                          THEN "SELECT_METHOD" ELSE status
       /\ urlAction' = urlAction]_vars

\* a login resolved on a page loaded with action=new and no stored session
C23_Witness ==
    /\ authEvent.op = "emailLogin"
    /\ authEvent.ok
    /\ urlAction = "new"
    /\ currentUser = ANNA
    /\ status = "SELECT_METHOD"
    /\ invoiceData = JsNull

\* C29: while no user is logged in, after a logout as before the first
\* login, the status is IDLE and no draft is held, whatever call was pending
\* when the user logged out
C29_Original ==
    currentUser = NoUser => (status = "IDLE" /\ invoiceData = JsNull)

Busy == status \in {"ANALYZING", "UPLOADING"}

\* C21: no failure is fatal. A failed extraction leaves the method
\* selection, a submission that fails validation and an upload that was
\* rejected leave the review form, a login that was rejected leaves the
\* login form and the status as it was; and, the pending calls completing,
\* whenever the status is ANALYZING or UPLOADING it later is neither
C21_NoFailureFatal ==
    /\ [][/\ \A i \in 1..Len(inflight), resp \in PageResponses :
                (ExtractDone(i, resp) /\ ~extractInvoiceData(resp).ok) =>
                   status' = "SELECT_METHOD"
          /\ (handleSubmit /\ Len(validationErrors') > 0) =>
                (status' = "REVIEW" /\ inflight' = inflight)
          /\ \A i \in 1..Len(inflight), t \in ClockReadings :
                UploadDone(i, FALSE, 0, 0, t) =>
                   (status' = "REVIEW" /\ invoiceData' = invoiceData)
          /\ \A i \in 1..Len(inflight), t \in ClockReadings :
                (EmailLoginDone(i, t) /\ ~authEvent'.ok) =>
                   (LoginShown' /\ status' = status)]_vars
    /\ Busy ~> ~Busy

\* an upload was rejected and the review form is back with the draft
C21_Witness ==
    /\ lastEvent.op = "uploadDone"
    /\ ~lastEvent.ok
    /\ status = "REVIEW"
    /\ invoiceData # JsNull
    /\ currentUser # NoUser

====
